---- MODULE Spec2Model ----
(***************************************************************************)
(* Dual-source ingestion engine of tempest-exporter: the reconnecting      *)
(* WebSocket client (Client.Run), the REST fallback poller                 *)
(* (RESTClient.RunFallback), the shared Collector store and its readers.   *)
(*                                                                         *)
(* Time is counted in seconds.  float64 values are records                *)
(* [nan, v]: nan is math.IsNaN, v is the value in tenths.                  *)
(***************************************************************************)
EXTENDS Integers, Sequences, FiniteSets, TLC

(***************************************************************************)
(* Bounds of the model.                                                    *)
(***************************************************************************)
\* Once the reconnect counter has reached the budget of the run, the next
\* dial stays blocked until cancellation: EngineCycles when both tasks and
\* the readers run, RunCycles when Client.Run runs alone.
EngineCycles == 1
RunCycles == 8

\* The number of bits of an int64 of the model.
IntBits == 12

(***************************************************************************)
(* Program constants.                                                      *)
(***************************************************************************)
InitialBackoff == 1
maxBackoff == 60
ResetAfter == 120
obsSTFieldCount == 18
pollInterval == 60
\* Values of the disconnectThreshold parameter of RunFallback.
Thresholds == {0, 120}

Min(a, b) == IF a <= b THEN a ELSE b

RECURSIVE SetMin(_)
SetMin(S) ==
  LET x == CHOOSE y \in S : TRUE
  IN  IF S = {x} THEN x ELSE Min(x, SetMin(S \ {x}))

(***************************************************************************)
(* float64 and decoded JSON values.                                        *)
(***************************************************************************)
F(n) == [nan |-> FALSE, v |-> n]
NaN == [nan |-> TRUE, v |-> 0]
IsNaN(x) == x.nan

\* What an `any` slot holds: nil, a float64, a string or a bool as
\* json.Unmarshal leaves them, a NaN float64 or a json.Number as a caller of
\* the codec can pass them.  A float64 is counted in tenths; a string and a
\* json.Number hold their text.
JNull == [k |-> "null", v |-> 0]
JNum(n) == [k |-> "num", v |-> n]
JStr(t) == [k |-> "str", t |-> t]
JBool == [k |-> "bool", v |-> 1]
JNaN == [k |-> "nan", v |-> 0]
JNumber(t) == [k |-> "Number", t |-> t]

\* The integer part of a float64 in tenths: truncation towards zero.
TruncInt(n) == IF n >= 0 THEN n \div 10 ELSE -((-n) \div 10)

\* int64 has IntBits bits here.  float64(math.MaxInt64) is not MaxInt64: the
\* constant has no float64 of its own and is rounded to the next power of two.
MaxInt64 == 2^(IntBits - 1) - 1
MinInt64 == -(2^(IntBits - 1))
FloatMaxInt64 == MaxInt64 + 1

\* int64(n) of a float64 in tenths.  When the integer part has no int64 the
\* result depends on the implementation: amd64 gives the smallest int64,
\* arm64 the nearest one.
Archs == {"amd64", "arm64"}

int64(arch, n) ==
  IF TruncInt(n) >= MinInt64 /\ TruncInt(n) <= MaxInt64 THEN TruncInt(n)
  ELSE IF arch = "amd64" THEN MinInt64
  ELSE IF TruncInt(n) > MaxInt64 THEN MaxInt64
  ELSE MinInt64

\* Decimal texts.
Digits == {"0", "1", "2", "3", "4", "5", "6", "7", "8", "9"}
DigitVal(c) ==
  CHOOSE d \in 0..9 : <<"0", "1", "2", "3", "4", "5", "6", "7", "8", "9">>[d + 1] = c

AllDigits(t) == \A i \in 1..Len(t) : t[i] \in Digits

RECURSIVE DigitsValue(_)
DigitsValue(t) ==
  IF t = <<>> THEN 0
  ELSE 10 * DigitsValue(SubSeq(t, 1, Len(t) - 1)) + DigitVal(t[Len(t)])

Signed(t) == Len(t) > 0 /\ t[1] \in {"+", "-"}
Unsigned(t) == IF Signed(t) THEN Tail(t) ELSE t
SignOf(t) == IF Len(t) > 0 /\ t[1] = "-" THEN -1 ELSE 1

\* The position of the first "." of t, 0 when there is none.
DotPos(t) ==
  IF \E i \in 1..Len(t) : t[i] = "."
    THEN CHOOSE i \in 1..Len(t) : t[i] = "." /\ \A j \in 1..(i - 1) : t[j] # "."
    ELSE 0

\* json.Number.Int64 is strconv.ParseInt(text, 10, 64): an optional sign and
\* digits, within int64.
ParseInt(t) ==
  IF Len(Unsigned(t)) > 0 /\ AllDigits(Unsigned(t))
     /\ SignOf(t) * DigitsValue(Unsigned(t)) >= MinInt64
     /\ SignOf(t) * DigitsValue(Unsigned(t)) <= MaxInt64
    THEN [ok |-> TRUE, v |-> SignOf(t) * DigitsValue(Unsigned(t))]
    ELSE [ok |-> FALSE, v |-> 0]

\* json.Number.Float64 is strconv.ParseFloat(text, 64) for a text without
\* exponent: an optional sign, digits with at most one ".", one digit at
\* least.  The value is in tenths; digits after the first fractional digit
\* are below the unit of the model and dropped.
ParseFloat(t) ==
  LET u == Unsigned(t)
      d == DotPos(u)
      whole == IF d = 0 THEN u ELSE SubSeq(u, 1, d - 1)
      frac == IF d = 0 THEN <<>> ELSE SubSeq(u, d + 1, Len(u))
      tenth == IF frac = <<>> THEN 0 ELSE DigitVal(frac[1])
  IN  IF AllDigits(whole) /\ AllDigits(frac) /\ Len(whole) + Len(frac) > 0
        THEN [ok |-> TRUE, v |-> SignOf(t) * (10 * DigitsValue(whole) + tenth)]
        ELSE [ok |-> FALSE, v |-> 0]

\* A toFloat that gives 0 for a null slot, as deref does.
toFloat_NullZero(x) ==
  IF x.k = "null" THEN F(0)
  ELSE IF x.k = "num" THEN F(x.v)
  ELSE IF x.k = "Number"
    THEN IF ParseFloat(x.t).ok THEN F(ParseFloat(x.t).v) ELSE NaN
  ELSE NaN

\* A toFloat that reads a string as it reads a json.Number.
toFloat_Strings(x) ==
  IF x.k = "null" THEN NaN
  ELSE IF x.k = "num" THEN F(x.v)
  ELSE IF x.k \in {"Number", "str"}
    THEN IF ParseFloat(x.t).ok THEN F(ParseFloat(x.t).v) ELSE NaN
  ELSE NaN

toFloat(x) ==
  IF x.k = "null" THEN NaN
  ELSE IF x.k = "num" THEN F(x.v)
  ELSE IF x.k = "Number"
    THEN IF ParseFloat(x.t).ok THEN F(ParseFloat(x.t).v) ELSE NaN
  ELSE NaN

toInt64(arch, x) ==
  IF x.k = "null" THEN [err |-> TRUE, v |-> 0]
  ELSE IF x.k = "nan" THEN [err |-> TRUE, v |-> 0]
  ELSE IF x.k = "num"
    THEN IF x.v < 10 * MinInt64 \/ x.v > 10 * FloatMaxInt64
           THEN [err |-> TRUE, v |-> 0]
           ELSE [err |-> FALSE, v |-> int64(arch, x.v)]
  ELSE IF x.k = "Number"
    THEN IF ParseInt(x.t).ok THEN [err |-> FALSE, v |-> ParseInt(x.t).v]
         ELSE [err |-> TRUE, v |-> 0]
  ELSE [err |-> TRUE, v |-> 0]

\* The zero value Observation{}.
ZeroObservation ==
  [Timestamp |-> 0, WindLull |-> F(0), WindAvg |-> F(0), WindGust |-> F(0),
   WindDirection |-> F(0), WindSampleInterval |-> F(0),
   StationPressure |-> F(0), AirTemperature |-> F(0),
   RelativeHumidity |-> F(0), Illuminance |-> F(0), UV |-> F(0),
   SolarRadiation |-> F(0), RainAccumulated |-> F(0),
   PrecipitationType |-> F(0), LightningStrikeAvgDist |-> F(0),
   LightningStrikeCount |-> F(0), Battery |-> F(0), ReportInterval |-> F(0)]

\* The fields of Observation in declaration order.
ObservationFields ==
  <<"Timestamp", "WindLull", "WindAvg", "WindGust", "WindDirection",
    "WindSampleInterval", "StationPressure", "AirTemperature",
    "RelativeHumidity", "Illuminance", "UV", "SolarRadiation",
    "RainAccumulated", "PrecipitationType", "LightningStrikeAvgDist",
    "LightningStrikeCount", "Battery", "ReportInterval">>

\* A ParseObservation that takes the wind average and the gust from each
\* other's slot.
ParseObservation_Swapped(arch, raw) ==
  IF Len(raw) < obsSTFieldCount THEN [err |-> TRUE, obs |-> ZeroObservation]
  ELSE IF toInt64(arch, raw[1]).err THEN [err |-> TRUE, obs |-> ZeroObservation]
  ELSE [err |-> FALSE, obs |->
         [Timestamp |-> toInt64(arch, raw[1]).v,
          WindLull |-> toFloat(raw[2]),
          WindAvg |-> toFloat(raw[4]),
          WindGust |-> toFloat(raw[3]),
          WindDirection |-> toFloat(raw[5]),
          WindSampleInterval |-> toFloat(raw[6]),
          StationPressure |-> toFloat(raw[7]),
          AirTemperature |-> toFloat(raw[8]),
          RelativeHumidity |-> toFloat(raw[9]),
          Illuminance |-> toFloat(raw[10]),
          UV |-> toFloat(raw[11]),
          SolarRadiation |-> toFloat(raw[12]),
          RainAccumulated |-> toFloat(raw[13]),
          PrecipitationType |-> toFloat(raw[14]),
          LightningStrikeAvgDist |-> toFloat(raw[15]),
          LightningStrikeCount |-> toFloat(raw[16]),
          Battery |-> toFloat(raw[17]),
          ReportInterval |-> toFloat(raw[18])]]

\* raw[i] of the Go code is raw[i+1] here.
ParseObservation(arch, raw) ==
  IF Len(raw) < obsSTFieldCount THEN [err |-> TRUE, obs |-> ZeroObservation]
  ELSE IF toInt64(arch, raw[1]).err THEN [err |-> TRUE, obs |-> ZeroObservation]
  ELSE [err |-> FALSE, obs |->
         [Timestamp |-> toInt64(arch, raw[1]).v,
          WindLull |-> toFloat(raw[2]),
          WindAvg |-> toFloat(raw[3]),
          WindGust |-> toFloat(raw[4]),
          WindDirection |-> toFloat(raw[5]),
          WindSampleInterval |-> toFloat(raw[6]),
          StationPressure |-> toFloat(raw[7]),
          AirTemperature |-> toFloat(raw[8]),
          RelativeHumidity |-> toFloat(raw[9]),
          Illuminance |-> toFloat(raw[10]),
          UV |-> toFloat(raw[11]),
          SolarRadiation |-> toFloat(raw[12]),
          RainAccumulated |-> toFloat(raw[13]),
          PrecipitationType |-> toFloat(raw[14]),
          LightningStrikeAvgDist |-> toFloat(raw[15]),
          LightningStrikeCount |-> toFloat(raw[16]),
          Battery |-> toFloat(raw[17]),
          ReportInterval |-> toFloat(raw[18])]]

\* A *float64 of restObs: nil or a value in tenths.
PNil == [nil |-> TRUE, v |-> 0]
P(n) == [nil |-> FALSE, v |-> n]

deref(p) == IF p.nil THEN F(0) ELSE F(p.v)

restObsToObservation(arch, ro) ==
  [Timestamp |-> IF ~ro.Timestamp.nil /\ ro.Timestamp.v >= 0
                    /\ ro.Timestamp.v <= 10 * FloatMaxInt64
                 THEN int64(arch, ro.Timestamp.v) ELSE 0,
   WindLull |-> deref(ro.WindLull),
   WindAvg |-> deref(ro.WindAvg),
   WindGust |-> deref(ro.WindGust),
   WindDirection |-> deref(ro.WindDirection),
   WindSampleInterval |-> F(0),
   StationPressure |-> deref(ro.StationPressure),
   AirTemperature |-> deref(ro.AirTemperature),
   RelativeHumidity |-> deref(ro.RelativeHumidity),
   Illuminance |-> deref(ro.Illuminance),
   UV |-> deref(ro.UV),
   SolarRadiation |-> deref(ro.SolarRadiation),
   RainAccumulated |-> deref(ro.RainAccumulated),
   PrecipitationType |-> deref(ro.PrecipitationType),
   LightningStrikeAvgDist |-> deref(ro.LightningStrikeAvgDist),
   LightningStrikeCount |-> deref(ro.LightningStrikeCount),
   Battery |-> deref(ro.Battery),
   ReportInterval |-> deref(ro.ReportInterval)]

(***************************************************************************)
(* Inputs: frames and messages of the stream, responses of the REST API,   *)
(* device identifiers.                                                     *)
(***************************************************************************)
\* A valid obs_st frame (all 18 slots numeric).
FrameA ==
  <<JNum(10000), JNum(5), JNum(12), JNum(23), JNum(1800), JNum(30),
    JNum(10132), JNum(225), JNum(650), JNum(500), JNum(35), JNum(3000),
    JNum(1), JNum(10), JNum(100), JNum(20), JNum(26), JNum(600)>>

\* A later frame with a null slot, a string slot and a fractional timestamp.
FrameB ==
  <<JNum(10605), JNum(5), JNum(12), JNum(23), JNum(1800), JNum(30),
    JNum(10132), JNull, JNum(650), JNum(500), JNum(35), JNum(3000),
    JNum(1), JNum(10), JStr(<<"1", "0">>), JNum(20), JNum(26), JNum(600)>>

\* A frame with fewer than 18 slots, and one with a null timestamp.
FrameShort == SubSeq(FrameA, 1, 17)
FrameNullTs == [FrameA EXCEPT ![1] = JNull]

\* A received message: json tells whether it unmarshals into the WSMessage
\* envelope, typed whether it unmarshals into the struct of its type.
Msg(t, typed, o, e) ==
  [json |-> TRUE, type |-> t, typed |-> typed, obs |-> o, evt |-> e]

Messages ==
  { [json |-> FALSE, type |-> "", typed |-> FALSE, obs |-> <<>>, evt |-> <<>>],
    Msg("obs_st", TRUE, <<FrameA>>, <<>>),
    Msg("obs_st", TRUE, <<FrameShort>>, <<>>),
    Msg("obs_st", TRUE, <<FrameNullTs>>, <<>>),
    Msg("obs_st", TRUE, <<>>, <<>>),
    Msg("obs_st", FALSE, <<>>, <<>>),
    Msg("evt_strike", TRUE, <<>>, <<JNum(10000), JNum(50), JNum(30)>>),
    Msg("evt_precip", TRUE, <<>>, <<JNum(9000)>>),
    Msg("evt_precip", TRUE, <<>>, <<JNum(0)>>),
    Msg("evt_precip", TRUE, <<>>, <<JNull>>),
    Msg("evt_precip", TRUE, <<>>, <<>>),
    Msg("evt_precip", FALSE, <<>>, <<>>),
    Msg("ack", TRUE, <<>>, <<>>),
    Msg("rapid_wind", TRUE, <<>>, <<>>) }

\* restObs values: a complete one and one with absent fields.
RestObsFull ==
  [Timestamp |-> P(10300), WindLull |-> P(4), WindAvg |-> P(11),
   WindGust |-> P(21), WindDirection |-> P(900),
   StationPressure |-> P(10130), AirTemperature |-> P(221),
   RelativeHumidity |-> P(640), Illuminance |-> P(500), UV |-> P(35),
   SolarRadiation |-> P(3000), RainAccumulated |-> P(1),
   PrecipitationType |-> P(10), LightningStrikeAvgDist |-> P(100),
   LightningStrikeCount |-> P(20), Battery |-> P(26),
   ReportInterval |-> P(600)]

RestObsSparse ==
  [RestObsFull EXCEPT !.Timestamp = PNil, !.AirTemperature = PNil,
                      !.Battery = PNil]

\* The outcome of the HTTP exchange: a transport error (the client timeout
\* and a cancelled context are such errors), or a status with a body that decodes
\* into restResponse (decodes) or not.
Response(st, dec, o) ==
  [transport |-> TRUE, status |-> st, decodes |-> dec, obs |-> o]

TransportError ==
  [transport |-> FALSE, status |-> 0, decodes |-> FALSE, obs |-> <<>>]

Responses ==
  { TransportError,
    Response(500, FALSE, <<>>),
    Response(200, FALSE, <<>>),
    Response(200, TRUE, <<>>),
    Response(200, TRUE, <<RestObsFull>>) }

\* A FetchObservation that answers an empty obs array with a zero
\* Observation.
FetchObservation_EmptyOk(arch, resp) ==
  IF ~resp.transport THEN [err |-> TRUE, obs |-> ZeroObservation]
  ELSE IF resp.status # 200 THEN [err |-> TRUE, obs |-> ZeroObservation]
  ELSE IF ~resp.decodes THEN [err |-> TRUE, obs |-> ZeroObservation]
  ELSE IF Len(resp.obs) = 0 THEN [err |-> FALSE, obs |-> ZeroObservation]
  ELSE [err |-> FALSE, obs |-> restObsToObservation(arch, resp.obs[1])]

FetchObservation(arch, resp) ==
  IF ~resp.transport THEN [err |-> TRUE, obs |-> ZeroObservation]
  ELSE IF resp.status # 200 THEN [err |-> TRUE, obs |-> ZeroObservation]
  ELSE IF ~resp.decodes THEN [err |-> TRUE, obs |-> ZeroObservation]
  ELSE IF Len(resp.obs) = 0 THEN [err |-> TRUE, obs |-> ZeroObservation]
  ELSE [err |-> FALSE, obs |-> restObsToObservation(arch, resp.obs[1])]

\* Device identifiers as character sequences.
DeviceIDs == { <<"1", "2">>, <<"a", "b">> }

\* strconv.Atoi succeeds on an optional sign followed by digits.
AtoiOk(s) ==
  LET body == IF Len(s) > 0 /\ s[1] \in {"+", "-"} THEN Tail(s) ELSE s
  IN  Len(body) > 0 /\ \A i \in 1..Len(body) : body[i] \in Digits

(***************************************************************************)
(* State.                                                                  *)
(***************************************************************************)
VARIABLES
  \* Collector
  obs, hasObs, connected, reconnects, scrapeErrors, rainStart,
  mu,                  \* "free", or the task that holds the write lock
  \* context
  cancelled,           \* ctx.Done() is closed
  \* Client and Client.Run
  budget,              \* number of failed cycles before a dial hangs
  deviceID,
  wsPc,                \* position of Run
  backoff,             \* local variable of Run, in seconds
  sinceStart,          \* time.Since(start), saturating above ResetAfter
  waitLeft,            \* time left on time.After(backoff)
  wsArg,               \* argument of the UpdateObservation call in progress
  \* RESTClient.RunFallback
  disconnectThreshold,
  fbPc,                \* position of RunFallback
  disconnectedSince,   \* -1 for nil, else time.Since(*disconnectedSince),
                       \* saturating at disconnectThreshold
  tickLeft,            \* time to the next firing of the ticker
  tickPending,         \* a tick is buffered in ticker.C
  fbArg,               \* argument of the UpdateObservation call in progress
  \* a reader: the result of Collect or of /readyz, "none" when idle
  reply,
  \* history of the run, read by the properties only
  lastLanded,          \* sequence holding the last value stored by a
                       \* completed UpdateObservation
  replyLanded,         \* lastLanded when the reply was produced
  downAge,             \* -1 while connected, else the time for which
                       \* connected has been false, saturating
  sessionAge,          \* -1 until this cycle's SetConnected(true), then the
                       \* time since it, saturating above ResetAfter
  failedCycles,        \* cycles of Run that ended without cancellation
  streak, streakFrom,  \* failed cycles since the start or since the last
                       \* long session, while every later cycle was quick
  outage,              \* -1, or time since the first tick that saw the
                       \* store disconnected after one that saw it connected
  outages,             \* number of such first ticks, saturating at 2
  everFetched,         \* RunFallback has issued a fetch
  lastFetch,           \* outcome of the last completed FetchObservation
  \* a call of a function of the codecs made on its own
  call,                \* the function and its arguments, "none" in a run of
                       \* the tasks
  ret                  \* what it returned, "none" before it returns

storeVars == <<obs, hasObs, connected, reconnects, scrapeErrors, rainStart, mu>>
wsVars == <<budget, deviceID, wsPc, backoff, sinceStart, waitLeft, wsArg>>
fbVars == <<disconnectThreshold, fbPc, disconnectedSince, tickLeft,
            tickPending, fbArg>>
wsHist == <<sessionAge, failedCycles, streak, streakFrom>>
fbHist == <<outage, outages, everFetched, lastFetch>>
callVars == <<call, ret>>
engineVars == <<storeVars, cancelled, wsVars, fbVars, reply, lastLanded,
                replyLanded, downAge, wsHist, fbHist>>
vars == <<engineVars, callVars>>

NoReply == [op |-> "none"]
NoCall == [fn |-> "none"]
NoRet == [fn |-> "none"]

Init ==
  /\ obs = ZeroObservation
  /\ hasObs = FALSE
  /\ connected = FALSE
  /\ reconnects = 0
  /\ scrapeErrors = 0
  /\ rainStart = F(0)
  /\ mu = "free"
  /\ cancelled = FALSE
  /\ budget = EngineCycles
  /\ deviceID \in DeviceIDs
  /\ wsPc = "dial"
  /\ backoff = InitialBackoff
  /\ sinceStart = 0
  /\ waitLeft = 0
  /\ wsArg = ZeroObservation
  /\ disconnectThreshold \in Thresholds
  /\ fbPc = "select"
  /\ disconnectedSince = -1
  /\ tickLeft = pollInterval
  /\ tickPending = FALSE
  /\ fbArg = ZeroObservation
  /\ reply = NoReply
  /\ lastLanded = <<>>
  /\ replyLanded = <<>>
  /\ downAge = 0
  /\ sessionAge = -1
  /\ failedCycles = 0
  /\ streak = 0
  /\ streakFrom = "start"
  /\ outage = -1
  /\ outages = 0
  /\ everFetched = FALSE
  /\ lastFetch = "none"
  /\ call = NoCall
  /\ ret = NoRet

(***************************************************************************)
(* Collector: sync.RWMutex and the update operations.                      *)
(***************************************************************************)
\* c.mu.Lock() and c.mu.RLock() return once no writer holds the lock; a
\* reader holds it within one step only.
Lock == mu = "free"

\* A reader that copies without taking the read lock.
RLock_Unlocked == TRUE

RLock == mu = "free"

FieldIndex(f) == CHOOSE i \in 1..Len(ObservationFields) : ObservationFields[i] = f

\* The struct assignment c.obs = obs after its first k fields are copied.
CopyFields(old, new, k) ==
  [f \in DOMAIN old |-> IF FieldIndex(f) <= k THEN new[f] ELSE old[f]]

\* The points of the struct copy at which the lock holder is seen: before
\* the first field, midway, and after the last one.
TearPoints ==
  {0, Len(ObservationFields) \div 2, Len(ObservationFields)}

\* UpdateObservation up to some point of the struct copy, the lock held.
UpdateObservationBegin(who, o) ==
  /\ Lock
  /\ mu' = who
  /\ \E k \in TearPoints : obs' = CopyFields(obs, o, k)
  /\ UNCHANGED <<hasObs, connected, reconnects, scrapeErrors, rainStart>>

\* An UpdateObservation that leaves hasObs alone.
UpdateObservationEnd_NoFlag(who, o) ==
  /\ mu = who
  /\ obs' = o
  /\ mu' = "free"
  /\ lastLanded' = <<o>>
  /\ UNCHANGED <<hasObs, connected, reconnects, scrapeErrors, rainStart>>

\* The rest of UpdateObservation.
UpdateObservationEnd(who, o) ==
  /\ mu = who
  /\ obs' = o
  /\ hasObs' = TRUE
  /\ mu' = "free"
  /\ lastLanded' = <<o>>
  /\ UNCHANGED <<connected, reconnects, scrapeErrors, rainStart>>

\* A SetConnected that forgets the rain start.
SetConnected_ClearsRain(b) ==
  /\ Lock
  /\ connected' = b
  /\ downAge' = IF b THEN -1 ELSE IF connected THEN 0 ELSE downAge
  /\ rainStart' = F(0)
  /\ UNCHANGED <<obs, hasObs, reconnects, scrapeErrors, mu>>

SetConnected(b) ==
  /\ Lock
  /\ connected' = b
  /\ downAge' = IF b THEN -1 ELSE IF connected THEN 0 ELSE downAge
  /\ UNCHANGED <<obs, hasObs, reconnects, scrapeErrors, rainStart, mu>>

\* An IncrReconnects that counts a cycle twice.
IncrReconnects_Twice ==
  /\ Lock
  /\ reconnects' = reconnects + 2
  /\ UNCHANGED <<obs, hasObs, connected, scrapeErrors, rainStart, mu>>

IncrReconnects ==
  /\ Lock
  /\ reconnects' = reconnects + 1
  /\ UNCHANGED <<obs, hasObs, connected, scrapeErrors, rainStart, mu>>

SetRainStart(epoch) ==
  /\ Lock
  /\ rainStart' = epoch
  /\ UNCHANGED <<obs, hasObs, connected, reconnects, scrapeErrors, mu>>

\* An IncrScrapeErrors that adds 2.
IncrScrapeErrors_Twice ==
  /\ Lock
  /\ scrapeErrors' = scrapeErrors + 2
  /\ UNCHANGED <<obs, hasObs, connected, reconnects, rainStart, mu>>

IncrScrapeErrors ==
  /\ Lock
  /\ scrapeErrors' = scrapeErrors + 1
  /\ UNCHANGED <<obs, hasObs, connected, reconnects, rainStart, mu>>

isConnected == connected

(***************************************************************************)
(* Client.Run, connectAndRead, readLoop and the message handlers.          *)
(***************************************************************************)
\* A Run that never resets its backoff.
BackoffForWait_NoReset(b, since) == b

\* The backoff used for the wait: reset after a cycle of more than 2 minutes.
BackoffForWait(b, since) == IF since > ResetAfter THEN InitialBackoff ELSE b

\* A doubling without the cap.
NextBackoff_NoCap(b) == b * 2

\* backoff *= 2, capped at maxBackoff.
NextBackoff(b) == IF b * 2 > maxBackoff THEN maxBackoff ELSE b * 2

wsKeep == UNCHANGED <<budget, deviceID, backoff, sinceStart, waitLeft, wsArg>>
\* A step of Run: no reply of a reader is being written (a reply is written
\* before the tasks move on; nothing they do after the copy changes it), and
\* the rest of the state stays.
othersKeep ==
  /\ reply = NoReply
  /\ UNCHANGED <<cancelled, fbVars, reply, replyLanded, fbHist, callVars>>

\* websocket.Dial returns an error (always so once ctx is cancelled).
WsDialFails ==
  /\ wsPc = "dial"
  /\ cancelled \/ reconnects < budget
  /\ wsPc' = "returned"
  /\ UNCHANGED <<storeVars, lastLanded, downAge, wsHist>>
  /\ wsKeep /\ othersKeep

\* A connectAndRead that marks the store connected as soon as the dial
\* succeeds.
WsDialOk_Connects ==
  /\ wsPc = "dial"
  /\ ~cancelled
  /\ reconnects < budget
  /\ SetConnected(TRUE)
  /\ wsPc' = "subscribe"
  /\ UNCHANGED <<lastLanded, wsHist>>
  /\ wsKeep /\ othersKeep

WsDialOk ==
  /\ wsPc = "dial"
  /\ ~cancelled
  /\ reconnects < budget
  /\ wsPc' = "subscribe"
  /\ UNCHANGED <<storeVars, lastLanded, downAge, wsHist>>
  /\ wsKeep /\ othersKeep

\* A connectAndRead that subscribes whatever the device identifier.
WsInvalidDeviceID_Subscribes ==
  /\ wsPc = "subscribe"
  /\ ~AtoiOk(deviceID)
  /\ ~cancelled
  /\ SetConnected(TRUE)
  /\ wsPc' = "read"
  /\ sessionAge' = 0
  /\ UNCHANGED <<lastLanded, failedCycles, streak, streakFrom>>
  /\ wsKeep /\ othersKeep

\* strconv.Atoi(c.deviceID) fails.
WsInvalidDeviceID ==
  /\ wsPc = "subscribe"
  /\ ~AtoiOk(deviceID)
  /\ wsPc' = "returned"
  /\ UNCHANGED <<storeVars, lastLanded, downAge, wsHist>>
  /\ wsKeep /\ othersKeep

\* conn.Write of listen_start returns an error.
WsWriteFails ==
  /\ wsPc = "subscribe"
  /\ AtoiOk(deviceID)
  /\ wsPc' = "returned"
  /\ UNCHANGED <<storeVars, lastLanded, downAge, wsHist>>
  /\ wsKeep /\ othersKeep

\* listen_start is written, SetConnected(true), the first read starts.
WsSubscribed ==
  /\ wsPc = "subscribe"
  /\ AtoiOk(deviceID)
  /\ ~cancelled
  /\ SetConnected(TRUE)
  /\ wsPc' = "read"
  /\ sessionAge' = 0
  /\ UNCHANGED <<lastLanded, failedCycles, streak, streakFrom>>
  /\ wsKeep /\ othersKeep

\* conn.Read returns an error: a transport error, the expiry of the read
\* deadline (readTimeout), or cancellation.
WsReadFails ==
  /\ wsPc = "read"
  /\ wsPc' = "returned"
  /\ UNCHANGED <<storeVars, lastLanded, downAge, wsHist>>
  /\ wsKeep /\ othersKeep

\* handleObsST stores nothing for this message.
ObsSTRejected(arch, m) ==
  IF ~m.typed THEN TRUE
  ELSE IF Len(m.obs) = 0 THEN TRUE
  ELSE ParseObservation(arch, m.obs[1]).err

\* A handlePrecip that stores whatever toFloat returns.
PrecipAccepted_Any(m) ==
  IF ~m.typed THEN FALSE
  ELSE Len(m.evt) >= 1

\* handlePrecip calls SetRainStart for this message.
PrecipAccepted(m) ==
  IF ~m.typed THEN FALSE
  ELSE IF Len(m.evt) >= 1 THEN ~IsNaN(toFloat(m.evt[1]))
  ELSE FALSE

\* One iteration of readLoop whose message leaves the store alone: an
\* unparseable envelope, a rejected obs_st or evt_precip, evt_strike, a
\* control message, an unknown type.
WsReadIgnored(m) ==
  /\ wsPc = "read"
  /\ ~cancelled
  /\ \/ ~m.json
     \/ m.json /\ m.type = "obs_st" /\ \E arch \in Archs : ObsSTRejected(arch, m)
     \/ m.json /\ m.type = "evt_precip" /\ ~PrecipAccepted(m)
     \/ m.json /\ m.type \notin {"obs_st", "evt_precip"}
  /\ UNCHANGED <<storeVars, wsPc, lastLanded, downAge, wsHist>>
  /\ wsKeep /\ othersKeep

\* readLoop dispatches an obs_st message that handleObsST decodes: the
\* call of UpdateObservation begins.
WsReadObsST(m) ==
  /\ wsPc = "read"
  /\ ~cancelled
  /\ m.json /\ m.type = "obs_st"
  /\ \E arch \in Archs :
       /\ ~ObsSTRejected(arch, m)
       /\ UpdateObservationBegin("ws", ParseObservation(arch, m.obs[1]).obs)
       /\ wsArg' = ParseObservation(arch, m.obs[1]).obs
  /\ wsPc' = "update"
  /\ UNCHANGED <<budget, deviceID, backoff, sinceStart, waitLeft>>
  /\ UNCHANGED <<lastLanded, downAge, wsHist>>
  /\ othersKeep

\* UpdateObservation returns, handleObsST returns, the next read starts.
WsUpdateEnd ==
  /\ wsPc = "update"
  /\ UpdateObservationEnd("ws", wsArg)
  /\ wsPc' = "read"
  /\ wsArg' = ZeroObservation
  /\ UNCHANGED <<budget, deviceID, backoff, sinceStart, waitLeft>>
  /\ UNCHANGED <<downAge, wsHist>>
  /\ othersKeep

\* readLoop dispatches an evt_precip message with a numeric epoch.
WsReadPrecip(m) ==
  /\ wsPc = "read"
  /\ ~cancelled
  /\ m.json /\ m.type = "evt_precip" /\ PrecipAccepted(m)
  /\ SetRainStart(toFloat(m.evt[1]))
  /\ UNCHANGED <<wsPc, lastLanded, downAge, wsHist>>
  /\ wsKeep /\ othersKeep

\* connectAndRead has returned and ctx.Err() != nil: Run returns.
WsReturnCancelled ==
  /\ wsPc = "returned"
  /\ cancelled
  /\ wsPc' = "done"
  /\ UNCHANGED <<storeVars, lastLanded, downAge, wsHist>>
  /\ wsKeep /\ othersKeep

\* connectAndRead has returned and ctx.Err() == nil: SetConnected(false).
WsDisconnected ==
  /\ wsPc = "returned"
  /\ ~cancelled
  /\ SetConnected(FALSE)
  /\ wsPc' = "incr"
  /\ failedCycles' = failedCycles + 1
  /\ IF sessionAge > ResetAfter
       THEN streak' = 1 /\ streakFrom' = "long"
     ELSE IF sinceStart > ResetAfter
       THEN streak' = 0 /\ streakFrom' = "none"
     ELSE IF streakFrom # "none"
       THEN streak' = streak + 1 /\ UNCHANGED streakFrom
     ELSE UNCHANGED <<streak, streakFrom>>
  /\ UNCHANGED <<lastLanded, sessionAge>>
  /\ wsKeep /\ othersKeep

\* IncrReconnects, the reset of backoff, and the start of the wait.
WsIncrReconnects ==
  /\ wsPc = "incr"
  /\ IncrReconnects
  /\ backoff' = BackoffForWait(backoff, sinceStart)
  /\ waitLeft' = backoff'
  /\ wsPc' = "wait"
  /\ UNCHANGED <<budget, deviceID, sinceStart, wsArg>>
  /\ UNCHANGED <<lastLanded, downAge, wsHist>>
  /\ othersKeep

\* A wait that does not watch ctx.Done().
WsWaitCancelled_Ignored ==
  /\ wsPc = "wait"
  /\ cancelled
  /\ UNCHANGED vars

\* The select of Run takes <-ctx.Done().
WsWaitCancelled ==
  /\ wsPc = "wait"
  /\ cancelled
  /\ wsPc' = "done"
  /\ UNCHANGED <<storeVars, lastLanded, downAge, wsHist>>
  /\ wsKeep /\ othersKeep

\* A Run that returns after its wait instead of starting the next cycle.
WsWaitElapsed_GivesUp ==
  /\ wsPc = "wait"
  /\ waitLeft = 0
  /\ wsPc' = "done"
  /\ UNCHANGED <<storeVars, lastLanded, downAge, wsHist>>
  /\ wsKeep /\ othersKeep

\* The select of Run takes <-time.After(backoff); backoff doubles and the
\* next cycle starts with start := time.Now().
WsWaitElapsed ==
  /\ wsPc = "wait"
  /\ waitLeft = 0
  /\ backoff' = NextBackoff(backoff)
  /\ sinceStart' = 0
  /\ sessionAge' = -1
  /\ wsPc' = "dial"
  /\ UNCHANGED <<budget, deviceID, waitLeft, wsArg>>
  /\ UNCHANGED <<storeVars, lastLanded, downAge, failedCycles, streak,
                 streakFrom>>
  /\ othersKeep

Run ==
  \/ WsDialFails
  \/ WsDialOk
  \/ WsInvalidDeviceID
  \/ WsWriteFails
  \/ WsSubscribed
  \/ WsReadFails
  \/ \E m \in Messages : WsReadIgnored(m)
  \/ \E m \in Messages : WsReadObsST(m)
  \/ WsUpdateEnd
  \/ \E m \in Messages : WsReadPrecip(m)
  \/ WsReturnCancelled
  \/ WsDisconnected
  \/ WsIncrReconnects
  \/ WsWaitCancelled
  \/ WsWaitElapsed

(***************************************************************************)
(* RESTClient.RunFallback.                                                 *)
(***************************************************************************)
\* A tick that keeps the marker while connected.
MarkerAfterTick_Kept(conn, since) ==
  IF since = -1 THEN (IF conn THEN -1 ELSE 0) ELSE since

\* The marker after a tick, from isConnected() and the marker before it.
MarkerAfterTick(conn, since) ==
  IF conn THEN -1 ELSE IF since = -1 THEN 0 ELSE since

\* A tick that fetches without looking at the connection state.
TickFetches_Always(conn, since, threshold) ==
  /\ since # -1
  /\ ~(since < threshold)

\* A tick that fetches as soon as it records the marker, the threshold
\* being 0.
TickFetches_FirstTick(conn, since, threshold) ==
  /\ ~conn
  /\ ~((IF since = -1 THEN 0 ELSE since) < threshold)

\* The tick goes on to FetchObservation.
TickFetches(conn, since, threshold) ==
  /\ ~conn
  /\ since # -1
  /\ ~(since < threshold)

fbKeep == UNCHANGED <<disconnectThreshold, tickLeft>>
\* A step of RunFallback: likewise.
fbOthersKeep ==
  /\ reply = NoReply
  /\ UNCHANGED <<cancelled, wsVars, reply, replyLanded, wsHist, callVars>>

\* A select that does not watch ctx.Done().
FbCancelled_Ignored ==
  /\ fbPc = "select"
  /\ cancelled
  /\ UNCHANGED vars

\* The select of RunFallback takes <-ctx.Done().
FbCancelled ==
  /\ fbPc = "select"
  /\ cancelled
  /\ fbPc' = "done"
  /\ UNCHANGED <<storeVars, lastLanded, downAge, fbHist>>
  /\ UNCHANGED <<disconnectedSince, tickPending, fbArg>>
  /\ fbKeep /\ fbOthersKeep

\* The select of RunFallback takes <-ticker.C: one pass of the loop body up
\* to a continue or to the call of FetchObservation.
FbTick ==
  /\ fbPc = "select"
  /\ tickPending
  /\ RLock
  /\ tickPending' = FALSE
  /\ disconnectedSince' = MarkerAfterTick(isConnected, disconnectedSince)
  /\ IF TickFetches(isConnected, disconnectedSince, disconnectThreshold)
       THEN fbPc' = "fetch" /\ everFetched' = TRUE
       ELSE UNCHANGED <<fbPc, everFetched>>
  /\ IF connected
       THEN outage' = -1 /\ UNCHANGED outages
     ELSE IF outage = -1
       THEN outage' = 0 /\ outages' = IF outages < 2 THEN outages + 1 ELSE 2
     ELSE UNCHANGED <<outage, outages>>
  /\ UNCHANGED <<storeVars, lastLanded, downAge, fbArg, lastFetch>>
  /\ fbKeep /\ fbOthersKeep

\* A failed fetch that clears the marker, so that the threshold is counted
\* anew before the next fetch.
FbFetchFails_MarkerCleared(resp) ==
  /\ fbPc = "fetch"
  /\ cancelled => resp = TransportError
  /\ \E arch \in Archs : FetchObservation(arch, resp).err
  /\ fbPc' = "select"
  /\ lastFetch' = "failed"
  /\ disconnectedSince' = -1
  /\ UNCHANGED <<storeVars, lastLanded, downAge, outage, outages,
                 everFetched>>
  /\ UNCHANGED <<tickPending, fbArg>>
  /\ fbKeep /\ fbOthersKeep

\* A failed fetch that counts a reconnect.
FbFetchFails_CountsReconnect(resp) ==
  /\ fbPc = "fetch"
  /\ cancelled => resp = TransportError
  /\ \E arch \in Archs : FetchObservation(arch, resp).err
  /\ reconnects < budget
  /\ IncrReconnects
  /\ fbPc' = "select"
  /\ lastFetch' = "failed"
  /\ UNCHANGED <<lastLanded, downAge, outage, outages, everFetched>>
  /\ UNCHANGED <<disconnectedSince, tickPending, fbArg>>
  /\ fbKeep /\ fbOthersKeep

\* FetchObservation returns an error: RunFallback logs it and continues.
\* After a cancellation the exchange has failed.
FbFetchFails(resp) ==
  /\ fbPc = "fetch"
  /\ cancelled => resp = TransportError
  /\ \E arch \in Archs : FetchObservation(arch, resp).err
  /\ fbPc' = "select"
  /\ lastFetch' = "failed"
  /\ UNCHANGED <<storeVars, lastLanded, downAge, outage, outages,
                 everFetched>>
  /\ UNCHANGED <<disconnectedSince, tickPending, fbArg>>
  /\ fbKeep /\ fbOthersKeep

\* FetchObservation returns an observation: the call of UpdateObservation
\* begins.
FbFetchOk(resp) ==
  /\ fbPc = "fetch"
  /\ ~cancelled
  /\ \E arch \in Archs :
       /\ ~FetchObservation(arch, resp).err
       /\ UpdateObservationBegin("rest", FetchObservation(arch, resp).obs)
       /\ fbArg' = FetchObservation(arch, resp).obs
  /\ fbPc' = "update"
  /\ lastFetch' = "ok"
  /\ UNCHANGED <<lastLanded, downAge, outage, outages, everFetched>>
  /\ UNCHANGED <<disconnectedSince, tickPending>>
  /\ fbKeep /\ fbOthersKeep

\* A RunFallback that returns after its first update.
FbUpdateEnd_Stops ==
  /\ fbPc = "update"
  /\ UpdateObservationEnd("rest", fbArg)
  /\ fbPc' = "done"
  /\ fbArg' = ZeroObservation
  /\ UNCHANGED <<downAge, fbHist>>
  /\ UNCHANGED <<disconnectedSince, tickPending>>
  /\ fbKeep /\ fbOthersKeep

\* UpdateObservation returns and RunFallback goes back to its select.
FbUpdateEnd ==
  /\ fbPc = "update"
  /\ UpdateObservationEnd("rest", fbArg)
  /\ fbPc' = "select"
  /\ fbArg' = ZeroObservation
  /\ UNCHANGED <<downAge, fbHist>>
  /\ UNCHANGED <<disconnectedSince, tickPending>>
  /\ fbKeep /\ fbOthersKeep

RunFallback ==
  \/ FbCancelled
  \/ FbTick
  \/ \E resp \in Responses : FbFetchFails(resp)
  \/ \E resp \in Responses : FbFetchOk(resp)
  \/ FbUpdateEnd

(***************************************************************************)
(* Readers of the store, the cancellation signal and the passage of time.  *)
(***************************************************************************)
readKeep ==
  UNCHANGED <<storeVars, cancelled, wsVars, fbVars, lastLanded,
              downAge, wsHist, fbHist, callVars>>

\* Collect copies every field under the read lock.
Collect ==
  /\ reply = NoReply
  /\ RLock
  /\ reply' = [op |-> "collect", obs |-> obs, hasObs |-> hasObs,
               connected |-> connected, reconnects |-> reconnects,
               scrapeErrors |-> scrapeErrors, rainStart |-> rainStart]
  /\ replyLanded' = lastLanded
  /\ readKeep

\* HasObservation as /readyz calls it.
HasObservation == hasObs

Readyz ==
  /\ reply = NoReply
  /\ RLock
  /\ reply' = [op |-> "readyz",
               status |-> IF HasObservation THEN 200 ELSE 503]
  /\ replyLanded' = lastLanded
  /\ readKeep

\* The reply has been written.
ReplySent ==
  /\ reply # NoReply
  /\ reply' = NoReply
  /\ replyLanded' = <<>>
  /\ readKeep

\* cancel() of main.
Cancel ==
  /\ ~cancelled
  /\ cancelled' = TRUE
  /\ UNCHANGED <<storeVars, wsVars, fbVars, reply, lastLanded, replyLanded,
                 downAge, wsHist, fbHist, callVars>>

\* The time after which an age x reaches ResetAfter, or exceeds it.
Horizon(x) ==
  IF x = -1 \/ x > ResetAfter THEN {}
  ELSE IF x = ResetAfter THEN {1}
  ELSE {ResetAfter - x}

\* The timers that are running: the ticker and the backoff wait.
Running ==
  (IF fbPc # "done" THEN {tickLeft} ELSE {})
    \cup (IF wsPc = "wait" THEN {waitLeft} ELSE {})

\* The instants up to which time passes: the next expiry of a running timer
\* or, when none is running and the cycle is blocked in its dial or in a
\* read, the times after which time.Since(start) and the age of the session
\* reach and exceed 2 minutes.
Timers ==
  IF Running # {} THEN Running
  ELSE IF wsPc \in {"dial", "read"}
    THEN Horizon(sinceStart) \cup Horizon(sessionAge)
  ELSE {}

\* x + d, saturating at cap; -1 (not running) stays.
Aged(x, d, cap) == IF x = -1 THEN -1 ELSE IF x + d > cap THEN cap ELSE x + d

\* Time passes up to the next of these instants, while both tasks are
\* blocked (dial, read, backoff wait, tick wait, fetch) and no expired timer
\* or buffered tick is waiting to be taken.
Advance ==
  /\ wsPc \in {"dial", "read", "wait", "done"}
  /\ fbPc \in {"select", "fetch", "done"}
  /\ reply = NoReply
  /\ Timers # {}
  /\ \A t \in Timers : t > 0
  /\ ~(tickPending /\ fbPc = "select")
  /\ LET d == SetMin(Timers)
     IN  /\ tickLeft' = IF fbPc = "done" THEN tickLeft
                        ELSE IF tickLeft = d THEN pollInterval
                        ELSE tickLeft - d
         /\ tickPending' = (tickPending \/ (fbPc # "done" /\ tickLeft = d))
         /\ waitLeft' = IF wsPc = "wait" THEN waitLeft - d ELSE waitLeft
         /\ sinceStart' = IF wsPc = "done" THEN sinceStart
                          ELSE Aged(sinceStart, d, ResetAfter + 1)
         /\ sessionAge' = IF wsPc = "done" THEN sessionAge
                          ELSE Aged(sessionAge, d, ResetAfter + 1)
         /\ disconnectedSince' = Aged(disconnectedSince, d, disconnectThreshold)
         /\ downAge' = Aged(downAge, d, disconnectThreshold)
         /\ outage' = Aged(outage, d, disconnectThreshold)
  /\ UNCHANGED <<storeVars, cancelled, budget, deviceID, wsPc, backoff, wsArg,
                 disconnectThreshold, fbPc, fbArg, reply, lastLanded,
                 replyLanded, failedCycles, streak, streakFrom, outages,
                 everFetched, lastFetch, callVars>>

\* Both tasks and the readers.
Next ==
  \/ Run
  \/ RunFallback
  \/ Collect
  \/ Readyz
  \/ ReplySent
  \/ Cancel
  \/ Advance

Spec == Init /\ [][Next]_vars

\* Client.Run alone against the store, as the tests of Run start it:
\* RunFallback is not running and nothing reads.
InitRun ==
  /\ obs = ZeroObservation
  /\ hasObs = FALSE
  /\ connected = FALSE
  /\ reconnects = 0
  /\ scrapeErrors = 0
  /\ rainStart = F(0)
  /\ mu = "free"
  /\ cancelled = FALSE
  /\ budget = RunCycles
  /\ deviceID \in DeviceIDs
  /\ wsPc = "dial"
  /\ backoff = InitialBackoff
  /\ sinceStart = 0
  /\ waitLeft = 0
  /\ wsArg = ZeroObservation
  /\ disconnectThreshold = 0
  /\ fbPc = "done"
  /\ disconnectedSince = -1
  /\ tickLeft = pollInterval
  /\ tickPending = FALSE
  /\ fbArg = ZeroObservation
  /\ reply = NoReply
  /\ lastLanded = <<>>
  /\ replyLanded = <<>>
  /\ downAge = 0
  /\ sessionAge = -1
  /\ failedCycles = 0
  /\ streak = 0
  /\ streakFrom = "start"
  /\ outage = -1
  /\ outages = 0
  /\ everFetched = FALSE
  /\ lastFetch = "none"
  /\ call = NoCall
  /\ ret = NoRet

NextRun ==
  \/ Run
  \/ Cancel
  \/ Advance

SpecRun == InitRun /\ [][NextRun]_vars

(***************************************************************************)
(* Properties of the snapshot store.                                       *)
(***************************************************************************)
\* Every value UpdateObservation can be passed.
PassedValues ==
  UNION { { ParseObservation(arch, m.obs[1]).obs :
              m \in { x \in Messages :
                        x.json /\ x.type = "obs_st" /\ ~ObsSTRejected(arch, x) } }
            \cup { FetchObservation(arch, r).obs :
                     r \in { x \in Responses : ~FetchObservation(arch, x).err } } :
          arch \in Archs }

\* C1: whatever the interleaving of the UpdateObservation calls of the stream
\* connector and of the fallback poller with the reads, the Observation that
\* Collect copies is the complete value of the UpdateObservation that
\* completed last before the read (the zero value and hasObs = false when
\* none has), never fields of two different writes.
C1_CollectReadsLastWrite ==
  reply.op = "collect" =>
    IF replyLanded = <<>>
      THEN ~reply.hasObs /\ reply.obs = ZeroObservation
      ELSE /\ reply.hasObs
           /\ reply.obs = replyLanded[1]
           /\ reply.obs \in PassedValues

\* Collect returns the stream's value, written after the poller's write has
\* completed.
C1_Witness ==
  /\ reply.op = "collect"
  /\ \E arch \in Archs : reply.obs = ParseObservation(arch, FrameA).obs
  /\ lastFetch = "ok"
  /\ fbPc = "select"

\* C2: /readyz answers 503 as long as no UpdateObservation has completed and
\* 200 once one has; hasObs never goes back to false, whatever disconnects,
\* rejected frames or failed fetches follow.
C2_ReadyOnceObserved ==
  /\ [](reply.op = "readyz" => (reply.status = 200 <=> replyLanded # <<>>))
  /\ [](mu = "free" => (HasObservation <=> lastLanded # <<>>))
  /\ [][hasObs => hasObs']_vars

\* /readyz answers 200 after a disconnect and a failed fetch.
C2_Witness ==
  /\ reply.op = "readyz"
  /\ reply.status = 200
  /\ reconnects >= 1
  /\ ~connected
  /\ lastFetch = "failed"

(***************************************************************************)
(* Properties of RunFallback.                                              *)
(***************************************************************************)
\* The step in which RunFallback takes a tick.
TickTaken == fbPc = "select" /\ tickPending /\ ~tickPending'

\* The step in which RunFallback calls FetchObservation.
FetchIssued == fbPc # "fetch" /\ fbPc' = "fetch"

\* C3: a tick at which the store reports connected issues no fetch and
\* clears the disconnected-since marker; as long as no tick has seen the
\* store disconnected, no fetch has been issued.
C3_NoFetchWhileConnected ==
  /\ [][TickTaken /\ connected =>
          disconnectedSince' = -1 /\ fbPc' = "select"
            /\ everFetched' = everFetched]_vars
  /\ [](outages = 0 => ~everFetched /\ fbPc # "fetch")

\* A tick has been taken during a session, after an outage with fetches,
\* and the marker is cleared.
C3_Witness ==
  /\ connected
  /\ sessionAge > 0
  /\ tickLeft = pollInterval
  /\ ~tickPending
  /\ fbPc = "select"
  /\ everFetched
  /\ disconnectedSince = -1

\* C4: whenever RunFallback issues a fetch, the connected flag is false and
\* has been false for the whole threshold before it.
C4_FetchOnlyAfterThresholdDown ==
  [][FetchIssued => ~connected /\ downAge >= disconnectThreshold]_vars

\* C5: once the threshold has elapsed since the marker, every tick that
\* sees the store disconnected issues a fetch, a fetch is issued by a tick
\* only (one per tick), and the end of a fetch, failed or not, leaves the
\* marker as it is and returns to the wait for the next tick.
C5_OneFetchPerTick ==
  /\ [][TickTaken /\ ~connected /\ disconnectedSince # -1
          /\ disconnectedSince >= disconnectThreshold => FetchIssued]_vars
  /\ [][FetchIssued => TickTaken]_vars
  /\ [][fbPc = "fetch" /\ fbPc' # "fetch" =>
          disconnectedSince' = disconnectedSince]_vars
  /\ [][fbPc = "fetch" /\ lastFetch' = "failed" /\ fbPc' # "fetch" =>
          fbPc' = "select" /\ UNCHANGED storeVars]_vars

\* A fetch is issued on the tick after a failed fetch, the threshold being
\* 2 minutes.
C5_Witness ==
  /\ fbPc = "fetch"
  /\ lastFetch = "failed"
  /\ disconnectThreshold > 0
  /\ ~connected

\* C6: a tick that sees the store connected issues no fetch, and a fetch is
\* issued only when the threshold has elapsed since the first tick that saw
\* the store disconnected after the last one that saw it connected.
C6_ThresholdCountedAnew ==
  /\ [][TickTaken /\ connected => ~FetchIssued]_vars
  /\ [][FetchIssued => outage # -1 /\ outage >= disconnectThreshold]_vars

\* A fetch is issued in a second outage, the threshold being 2 minutes.
C6_Witness ==
  /\ fbPc = "fetch"
  /\ outages = 2
  /\ disconnectThreshold > 0
  /\ reconnects >= 1

(***************************************************************************)
(* Properties of Client.Run.                                               *)
(***************************************************************************)
\* min(2^(k-1), maxBackoff)
WaitOf(k) == IF 2 ^ (k - 1) > maxBackoff THEN maxBackoff ELSE 2 ^ (k - 1)

\* C7: the reconnect counter equals the number of cycles that ended without
\* cancellation (once IncrReconnects has run for the last of them), changes
\* by steps of 1 only, and does not change when Run returns.
C7_ReconnectsCountFailedCycles ==
  /\ [](wsPc # "incr" => reconnects = failedCycles)
  /\ [](wsPc = "incr" => reconnects + 1 = failedCycles)
  /\ [][reconnects' # reconnects => reconnects' = reconnects + 1]_vars
  /\ [][wsPc' = "done" => reconnects' = reconnects]_vars

\* Run waits after its third failed cycle.
C7_Witness ==
  /\ wsPc = "wait"
  /\ failedCycles = 3
  /\ reconnects = 3

\* C8: while no cycle has lasted more than 2 minutes, the wait after the
\* k-th failed cycle is min(2^(k-1), 60) seconds; backoff always lies
\* between 1 and 60.
C8_BackoffDoublesToCap ==
  /\ wsPc = "wait" /\ streakFrom = "start" =>
       backoff = WaitOf(streak) /\ streak = failedCycles
  /\ InitialBackoff <= backoff /\ backoff <= maxBackoff
  /\ waitLeft <= backoff

\* The eighth wait in a row is 60 seconds.
C8_Witness ==
  /\ wsPc = "wait"
  /\ streakFrom = "start"
  /\ streak = 8
  /\ backoff = 60
  /\ waitLeft = 60

\* C9: after a cycle whose connected session lasted more than 2 minutes the
\* wait is 1 second, whatever backoff was, and while the cycles after it
\* last no more than 2 minutes the waits go on as 2, 4, ...
C9_ResetAfterLongSession ==
  /\ [](wsPc = "wait" /\ streakFrom = "long" => backoff = WaitOf(streak))
  /\ [][wsPc = "incr" /\ wsPc' = "wait" /\ sessionAge > ResetAfter =>
          backoff' = InitialBackoff /\ waitLeft' = InitialBackoff]_vars

\* The second wait after a long session is 2 seconds, the backoff having
\* reached 16 seconds or more before that session.
C9_Witness ==
  /\ wsPc = "wait"
  /\ streakFrom = "long"
  /\ streak = 2
  /\ backoff = 2
  /\ reconnects >= 7

\* C10: once ctx is cancelled Run returns, without time having to pass; a
\* backoff wait that ends before its time ends by the return of Run; Run
\* starts nothing after it has returned.
C10_CancelReturns ==
  /\ cancelled ~> wsPc = "done"
  /\ [][wsPc = "wait" /\ wsPc' # "wait" /\ waitLeft > 0 =>
          cancelled /\ wsPc' = "done"]_vars
  /\ [][wsPc = "done" => wsPc' = "done" /\ UNCHANGED storeVars]_vars

\* Run has returned from a wait of 4 seconds or more with time left on it.
C10_Witness ==
  /\ wsPc = "done"
  /\ waitLeft > 0
  /\ backoff >= 4

\* The scheduler runs Run whenever it can take a step.
SpecRunFair == SpecRun /\ WF_vars(Run)

(***************************************************************************)
(* RunFallback alone against the store.                                    *)
(***************************************************************************)
\* RunFallback alone, as its tests start it: Run is not running, nothing
\* reads, the store is connected or not, and ctx is cancelled already or
\* not.
InitFallback ==
  /\ obs = ZeroObservation
  /\ hasObs = FALSE
  /\ connected \in BOOLEAN
  /\ reconnects = 0
  /\ scrapeErrors = 0
  /\ rainStart = F(0)
  /\ mu = "free"
  /\ cancelled \in BOOLEAN
  /\ budget = 0
  /\ deviceID \in DeviceIDs
  /\ wsPc = "done"
  /\ backoff = InitialBackoff
  /\ sinceStart = 0
  /\ waitLeft = 0
  /\ wsArg = ZeroObservation
  /\ disconnectThreshold \in Thresholds
  /\ fbPc = "select"
  /\ disconnectedSince = -1
  /\ tickLeft = pollInterval
  /\ tickPending = FALSE
  /\ fbArg = ZeroObservation
  /\ reply = NoReply
  /\ lastLanded = <<>>
  /\ replyLanded = <<>>
  /\ downAge = IF connected THEN -1 ELSE 0
  /\ sessionAge = -1
  /\ failedCycles = 0
  /\ streak = 0
  /\ streakFrom = "start"
  /\ outage = -1
  /\ outages = 0
  /\ everFetched = FALSE
  /\ lastFetch = "none"
  /\ call = NoCall
  /\ ret = NoRet

NextFallback ==
  \/ RunFallback
  \/ Cancel
  \/ Advance

SpecFallback == InitFallback /\ [][NextFallback]_vars

\* The scheduler runs RunFallback whenever it can take a step, and a select
\* whose ctx.Done() case is ready again and again ends up taking it (Go
\* chooses among the ready cases at random).
SpecFallbackFair ==
  SpecFallback /\ WF_vars(RunFallback) /\ SF_vars(FbCancelled)

\* C11: once ctx is cancelled RunFallback returns, without time having to
\* pass, also when ctx is cancelled before the first tick; after its return
\* it takes no tick and changes nothing in the store.
C11_FallbackReturnsOnCancel ==
  /\ cancelled ~> fbPc = "done"
  /\ [][fbPc = "done" =>
          fbPc' = "done" /\ tickPending' = tickPending
            /\ UNCHANGED storeVars]_vars
  /\ [][fbPc = "select" /\ fbPc' = "done" => cancelled]_vars

\* RunFallback has returned before the ticker fired once, the threshold
\* being 2 minutes.
C11_Witness ==
  /\ fbPc = "done"
  /\ cancelled
  /\ outages = 0
  /\ ~tickPending
  /\ tickLeft = pollInterval
  /\ disconnectThreshold > 0

(***************************************************************************)
(* Properties of the connection state after cancellation.                  *)
(***************************************************************************)
\* C12: once Run has returned, the store's connected flag is false.
C12_ReturnedRunIsDisconnected ==
  wsPc = "done" => ~connected

(***************************************************************************)
(* Redaction of the token, and the errors that connectAndRead, readLoop    *)
(* and FetchObservation return.  A text is a sequence of characters; a     *)
(* literal part of a format string is one element of the sequence, which   *)
(* no character of a token equals.                                         *)
(***************************************************************************)
\* Lengths of the texts and of the tokens tried.
MaxTextLen == 3
MaxTokenLen == 2

\* Characters of the texts and tokens; "[" is a character of the placeholder.
Alphabet == {"a", "b", "["}

SeqsUpTo(S, n) == UNION { [1..k -> S] : k \in 0..n }

Texts == SeqsUpTo(Alphabet, MaxTextLen)
Tokens == SeqsUpTo(Alphabet, MaxTokenLen)

\* "[REDACTED]"
Placeholder == <<"[", "R", "E", "D", "A", "C", "T", "E", "D", "]">>

HasPrefix(s, t) == Len(t) <= Len(s) /\ SubSeq(s, 1, Len(t)) = t

\* strings.Contains
Contains(s, t) ==
  \E i \in 1..(Len(s) - Len(t) + 1) : SubSeq(s, i, i + Len(t) - 1) = t

\* strings.ReplaceAll for a non-empty old: the occurrences are taken from
\* the left and do not overlap.
RECURSIVE ReplaceAll(_, _, _)
ReplaceAll(s, old, new) ==
  IF s = <<>> THEN <<>>
  ELSE IF HasPrefix(s, old)
    THEN new \o ReplaceAll(SubSeq(s, Len(old) + 1, Len(s)), old, new)
  ELSE <<Head(s)>> \o ReplaceAll(Tail(s), old, new)

\* strings.Replace(s, old, new, 1)
RECURSIVE ReplaceFirst(_, _, _)
ReplaceFirst(s, old, new) ==
  IF s = <<>> THEN <<>>
  ELSE IF HasPrefix(s, old)
    THEN new \o SubSeq(s, Len(old) + 1, Len(s))
  ELSE <<Head(s)>> \o ReplaceFirst(Tail(s), old, new)

\* A redaction of the first occurrence only.
redactToken_First(s, token) ==
  IF token = <<>> THEN s ELSE ReplaceFirst(s, token, Placeholder)

redactToken(s, token) ==
  IF token = <<>> THEN s ELSE ReplaceAll(s, token, Placeholder)

\* The bytes of a non-200 body that FetchObservation echoes.
statusBodyLimit == 512

\* The text of a json syntax error: it quotes the offending character.
JsonErrorText(body) ==
  IF body = <<>> THEN <<"EOF">>
  ELSE <<"invalid character '", body[1], "' looking for beginning of value">>

\* The errors of connectAndRead and readLoop, from the text of the failure
\* of websocket.Dial, conn.Write or conn.Read.
StreamErrorKinds == {"dial", "write", "read"}

StreamError(kind, text, token) ==
  IF kind = "dial"
    THEN <<"websocket dial failed: ">> \o redactToken(text, token)
  ELSE IF kind = "write"
    THEN <<"send listen_start: ">> \o redactToken(text, token)
  ELSE <<"read: ">> \o redactToken(text, token)

\* The errors of FetchObservation, from the text of the failure of
\* http.NewRequestWithContext or httpClient.Do, or from the body received.
FetchErrorKinds == {"request", "transport", "status", "decode"}

FetchError(kind, text, token) ==
  IF kind = "request"
    THEN <<"creating request: ">> \o text
  ELSE IF kind = "transport"
    THEN <<"fetching observations: ">> \o redactToken(text, token)
  ELSE IF kind = "status"
    THEN <<"unexpected status: ">>
           \o SubSeq(text, 1, Min(Len(text), statusBodyLimit))
  ELSE <<"decoding response: ">> \o JsonErrorText(text)

RedactCalls ==
  { [fn |-> "redactToken", s |-> s, token |-> t] : s \in Texts, t \in Tokens }

ErrorCalls ==
  { [fn |-> f, kind |-> k, text |-> s, token |-> t] :
      f \in {"connectAndRead"}, k \in StreamErrorKinds,
      s \in Texts, t \in Tokens \ {<<>>} }
  \cup
  { [fn |-> f, kind |-> k, text |-> s, token |-> t] :
      f \in {"FetchObservation"}, k \in FetchErrorKinds,
      s \in Texts, t \in Tokens \ {<<>>} }

callKeep == UNCHANGED <<call, engineVars>>

CallRedactToken ==
  /\ call.fn = "redactToken"
  /\ ret = NoRet
  /\ ret' = [fn |-> call.fn, v |-> redactToken(call.s, call.token)]
  /\ callKeep

\* connectAndRead returns an error.
ConnectAndReadFails ==
  /\ call.fn = "connectAndRead"
  /\ ret = NoRet
  /\ ret' = [fn |-> call.fn,
             err |-> StreamError(call.kind, call.text, call.token)]
  /\ callKeep

\* FetchObservation returns an error.
FetchObservationFails ==
  /\ call.fn = "FetchObservation"
  /\ ret = NoRet
  /\ ret' = [fn |-> call.fn,
             err |-> FetchError(call.kind, call.text, call.token)]
  /\ callKeep

\* No task runs: one call is made.
InitIdle ==
  /\ connected = FALSE
  /\ reconnects = 0
  /\ scrapeErrors = 0
  /\ rainStart = F(0)
  /\ mu = "free"
  /\ cancelled = FALSE
  /\ budget = 0
  /\ deviceID = <<"1", "2">>
  /\ wsPc = "done"
  /\ backoff = InitialBackoff
  /\ sinceStart = 0
  /\ waitLeft = 0
  /\ wsArg = ZeroObservation
  /\ disconnectThreshold = 0
  /\ fbPc = "done"
  /\ disconnectedSince = -1
  /\ tickLeft = pollInterval
  /\ tickPending = FALSE
  /\ fbArg = ZeroObservation
  /\ reply = NoReply
  /\ lastLanded = <<>>
  /\ replyLanded = <<>>
  /\ downAge = 0
  /\ sessionAge = -1
  /\ failedCycles = 0
  /\ streak = 0
  /\ streakFrom = "start"
  /\ outage = -1
  /\ outages = 0
  /\ everFetched = FALSE
  /\ lastFetch = "none"
  /\ ret = NoRet

\* A call on a new Collector.
InitCall ==
  /\ InitIdle
  /\ obs = ZeroObservation
  /\ hasObs = FALSE

InitRedact == InitCall /\ call \in RedactCalls \cup ErrorCalls

NextRedact ==
  \/ CallRedactToken
  \/ ConnectAndReadFails
  \/ FetchObservationFails

SpecRedact == InitRedact /\ [][NextRedact]_vars

Chars(t) == { t[i] : i \in 1..Len(t) }

\* A token of two or more characters, none of them a character of the
\* placeholder.
PlainToken(t) == Len(t) >= 2 /\ Chars(t) \cap Chars(Placeholder) = {}

\* C13: no error returned by connectAndRead, readLoop or FetchObservation
\* contains the token, whatever the text of the failure or the body received
\* (stated for the tokens of two or more characters that share no character
\* with the placeholder).
C13_ErrorsHideToken ==
  ret.fn \in {"connectAndRead", "FetchObservation"} /\ PlainToken(call.token)
    => ~Contains(ret.err, call.token)

\* C14 as claimed: for a non-empty token the result of redactToken contains
\* no occurrence of the token, and for the empty token it is s.
C14_RedactedHasNoToken ==
  ret.fn = "redactToken" =>
    IF call.token = <<>> THEN ret.v = call.s
    ELSE ~Contains(ret.v, call.token)

\* C14, amended: for the empty token the result is s; for a non-empty token
\* that does not occur in s the result is s; for a non-empty token that
\* shares no character with the placeholder the result contains no
\* occurrence of the token, and has one placeholder more than s for each
\* occurrence replaced.
C14_RedactedHasNoForeignToken ==
  ret.fn = "redactToken" =>
    /\ call.token = <<>> => ret.v = call.s
    /\ ~Contains(call.s, call.token) => ret.v = call.s
    /\ call.token # <<>> /\ Chars(call.token) \cap Chars(Placeholder) = {} =>
         /\ ~Contains(ret.v, call.token)
         /\ \E n \in 0..Len(call.s) :
              Len(ret.v) = Len(call.s)
                             + n * (Len(Placeholder) - Len(call.token))
         /\ Contains(call.s, call.token) => Contains(ret.v, Placeholder)

\* Two occurrences of a token are replaced.
C14_Witness ==
  /\ ret.fn = "redactToken"
  /\ call.token = <<"a">>
  /\ call.s = <<"a", "b", "a">>
  /\ ret.v = Placeholder \o <<"b">> \o Placeholder

(***************************************************************************)
(* The stream codec and the poll-response conversion as functions: one     *)
(* call of toFloat, toInt64, ParseObservation, handleObsST or              *)
(* restObsToObservation on drawn arguments.                                *)
(***************************************************************************)
MaxNumberLen == 4

NumberAlphabet == {"1", "5", ".", "-", "x"}
NumberTexts == SeqsUpTo(NumberAlphabet, MaxNumberLen)

\* float64 values in tenths: small ones, and the ones around the ends of
\* int64.
FloatValues ==
  {0, 15, -15, 10000, 10 * (FloatMaxInt64 - 2), 10 * FloatMaxInt64,
   10 * FloatMaxInt64 + 10, 10 * MinInt64, 10 * MinInt64 - 10}

Values ==
  {JNull, JBool, JNaN}
  \cup { JNum(v) : v \in FloatValues }
  \cup { JStr(t) : t \in NumberTexts }
  \cup { JNumber(t) : t \in NumberTexts }

\* What json.Unmarshal can leave in a slot of msg.Obs[0].
SlotValues ==
  {JNull, JBool, JStr(<<"1", "5">>), JStr(<<"x">>)}
  \cup { JNum(v) : v \in FloatValues }

\* FrameA with one slot replaced, with two slots replaced by values that are
\* no numbers, cut short, and with a slot more.
Frames ==
  { [FrameA EXCEPT ![i] = v] : i \in 1..obsSTFieldCount, v \in SlotValues }
  \cup { [FrameA EXCEPT ![i] = v, ![j] = w] :
           i \in 2..obsSTFieldCount, j \in 2..obsSTFieldCount,
           v \in {JNull, JStr(<<"x">>)}, w \in {JNull, JBool} }
  \cup { SubSeq(FrameA, 1, n) : n \in 0..(obsSTFieldCount - 1) }
  \cup { FrameA \o <<JNull>> }

ObsSTMessages ==
  { Msg("obs_st", TRUE, <<f>>, <<>>) : f \in Frames }
  \cup { Msg("obs_st", TRUE, <<>>, <<>>), Msg("obs_st", FALSE, <<>>, <<>>) }

RestFields == DOMAIN RestObsFull

RestObsInputs ==
  { [RestObsFull EXCEPT ![f] = PNil] : f \in RestFields }
  \cup { [RestObsFull EXCEPT !.Timestamp = P(v)] : v \in FloatValues }
  \cup { RestObsSparse, [f \in RestFields |-> PNil] }

CodecCalls ==
  { [fn |-> "toFloat", x |-> x] : x \in Values }
  \cup { [fn |-> "toInt64", arch |-> a, x |-> x] : a \in Archs, x \in Values }
  \cup { [fn |-> "ParseObservation", arch |-> a, raw |-> f] :
           a \in Archs, f \in Frames }
  \cup { [fn |-> "handleObsST", arch |-> a, msg |-> m] :
           a \in Archs, m \in ObsSTMessages }
  \cup { [fn |-> "restObsToObservation", arch |-> a, ro |-> ro] :
           a \in Archs, ro \in RestObsInputs }

CallToFloat ==
  /\ call.fn = "toFloat"
  /\ ret = NoRet
  /\ ret' = [fn |-> call.fn, v |-> toFloat(call.x)]
  /\ callKeep

CallToInt64 ==
  /\ call.fn = "toInt64"
  /\ ret = NoRet
  /\ ret' = [fn |-> call.fn, err |-> toInt64(call.arch, call.x).err,
             v |-> toInt64(call.arch, call.x).v]
  /\ callKeep

CallParseObservation ==
  /\ call.fn = "ParseObservation"
  /\ ret = NoRet
  /\ ret' = [fn |-> call.fn, err |-> ParseObservation(call.arch, call.raw).err,
             obs |-> ParseObservation(call.arch, call.raw).obs]
  /\ callKeep

\* handleObsST from its first line to its return, no other task running.
CallHandleObsST ==
  /\ call.fn = "handleObsST"
  /\ ret = NoRet
  /\ Lock
  /\ IF ObsSTRejected(call.arch, call.msg)
       THEN UNCHANGED <<obs, hasObs, lastLanded>>
       ELSE /\ obs' = ParseObservation(call.arch, call.msg.obs[1]).obs
            /\ hasObs' = TRUE
            /\ lastLanded' = <<ParseObservation(call.arch, call.msg.obs[1]).obs>>
  /\ ret' = [fn |-> call.fn]
  /\ UNCHANGED <<call, connected, reconnects, scrapeErrors, rainStart, mu>>
  /\ UNCHANGED <<cancelled, wsVars, fbVars, reply, replyLanded, downAge,
                 wsHist, fbHist>>

CallRestObsToObservation ==
  /\ call.fn = "restObsToObservation"
  /\ ret = NoRet
  /\ ret' = [fn |-> call.fn, obs |-> restObsToObservation(call.arch, call.ro)]
  /\ callKeep

\* The Collector is new or holds the observation of an earlier frame.
InitCodec ==
  /\ InitIdle
  /\ call \in CodecCalls
  /\ \/ obs = ZeroObservation /\ hasObs = FALSE
     \/ /\ call.fn = "handleObsST"
        /\ obs = restObsToObservation("amd64", RestObsFull)
        /\ hasObs = TRUE

NextCodec ==
  \/ CallToFloat
  \/ CallToInt64
  \/ CallParseObservation
  \/ CallHandleObsST
  \/ CallRestObsToObservation

SpecCodec == InitCodec /\ [][NextCodec]_vars

\* A slot 0 that is null, no number, or a number whose integer part is no
\* int64.
BadSlot0(x) ==
  IF x.k = "num"
    THEN TruncInt(x.v) < MinInt64 \/ TruncInt(x.v) > MaxInt64
    ELSE TRUE

BadFrame(raw) ==
  IF Len(raw) < obsSTFieldCount THEN TRUE ELSE BadSlot0(raw[1])

BadObsST(m) ==
  IF ~m.typed THEN TRUE
  ELSE IF Len(m.obs) = 0 THEN TRUE
  ELSE BadFrame(m.obs[1])

\* C15: a frame with fewer than 18 slots, or whose slot 0 is null, non-numeric
\* or out of range, always fails ParseObservation, and handleObsST then leaves
\* the observation and the has-observation flag of the store as they were;
\* so it does for a message with an empty obs array or invalid JSON.
C15_BadFrameLeavesStore ==
  /\ [](ret.fn = "ParseObservation" /\ BadFrame(call.raw) => ret.err)
  /\ [][call.fn = "handleObsST" /\ BadObsST(call.msg)
          => UNCHANGED <<obs, hasObs>>]_vars

\* Slots as json.Unmarshal leaves them: a number, or null, a string, a bool.
IsNumber(x) == x.k = "num"

\* C16: for a frame of at least 18 slots with a valid slot 0, and for every
\* slot i in 1..17 independently: if slot i is null or of the wrong type,
\* ParseObservation succeeds, the field of slot i is the unknown sentinel
\* (NaN), and every other field has the value of its own slot.
C16_BadSlotIsUnknown ==
  ret.fn = "ParseObservation" /\ ~BadFrame(call.raw) =>
    /\ ~ret.err
    /\ ret.obs.Timestamp = TruncInt(call.raw[1].v)
    /\ \A i \in 2..obsSTFieldCount :
         ret.obs[ObservationFields[i]] =
           IF IsNumber(call.raw[i]) THEN F(call.raw[i].v) ELSE NaN

\* Slots 2 and 7 are a string and null: WindAvg and AirTemperature are
\* unknown, their neighbours are decoded.
C16_Witness ==
  /\ ret.fn = "ParseObservation"
  /\ call.raw = [FrameA EXCEPT ![3] = JStr(<<"x">>), ![8] = JNull]
  /\ ~ret.err
  /\ IsNaN(ret.obs.WindAvg) /\ IsNaN(ret.obs.AirTemperature)
  /\ ret.obs.Timestamp = 1000
  /\ ret.obs.WindLull = F(5) /\ ret.obs.WindGust = F(23)
  /\ ret.obs.StationPressure = F(10132) /\ ret.obs.RelativeHumidity = F(650)

\* The slot table of obs_st: the field of slot i - 1.
SlotTable ==
  <<"Timestamp", "WindLull", "WindAvg", "WindGust", "WindDirection",
    "WindSampleInterval", "StationPressure", "AirTemperature",
    "RelativeHumidity", "Illuminance", "UV", "SolarRadiation",
    "RainAccumulated", "PrecipitationType", "LightningStrikeAvgDist",
    "LightningStrikeCount", "Battery", "ReportInterval">>

\* The frame derived from an Observation: slot by slot the number held by
\* the field the table names.
FrameOf(o) ==
  [i \in 1..obsSTFieldCount |->
     IF i = 1 THEN JNum(10 * o.Timestamp) ELSE JNum(o[SlotTable[i]].v)]

\* 18 slots, all of them numbers, slot 0 with an integer part that is an
\* int64.
ValidFrame(raw) ==
  IF Len(raw) = obsSTFieldCount
    THEN ~BadSlot0(raw[1]) /\ \A i \in 1..obsSTFieldCount : IsNumber(raw[i])
    ELSE FALSE

\* C17 as claimed: for every valid 18-slot frame ParseObservation maps slot i
\* to the field at position i of the slot table, and the frame derived from
\* the decoded fields is the input frame exactly.
C17_RoundTripExact ==
  ret.fn = "ParseObservation" /\ ValidFrame(call.raw) =>
    ~ret.err /\ FrameOf(ret.obs) = call.raw

\* C17: for every valid 18-slot frame ParseObservation maps slot i to the
\* field at position i of the slot table; the frame derived from the decoded
\* fields is the input frame with slot 0 cut to its integer part, hence the
\* input frame exactly when slot 0 is an integer.
C17_RoundTripButFraction ==
  ret.fn = "ParseObservation" /\ ValidFrame(call.raw) =>
    /\ ~ret.err
    /\ FrameOf(ret.obs)
         = [call.raw EXCEPT ![1] = JNum(10 * TruncInt(call.raw[1].v))]
    /\ call.raw[1].v % 10 = 0 => FrameOf(ret.obs) = call.raw

C17_Witness ==
  /\ ret.fn = "ParseObservation"
  /\ call.raw = FrameA
  /\ ValidFrame(call.raw)
  /\ ret.obs.Timestamp = 1000
  /\ ret.obs.WindAvg = F(12) /\ ret.obs.WindGust = F(23)
  /\ FrameOf(ret.obs) = FrameA

\* The decimal text of a number given in tenths, as encoding/json writes a
\* float64: sign, integer digits, and a fractional digit when there is one.
DigitChar(d) == <<"0", "1", "2", "3", "4", "5", "6", "7", "8", "9">>[d + 1]

RECURSIVE Itoa(_)
Itoa(n) ==
  IF n < 10 THEN <<DigitChar(n)>>
  ELSE Itoa(n \div 10) \o <<DigitChar(n % 10)>>

FormatTenths(v) ==
  LET a == IF v < 0 THEN -v ELSE v
  IN  (IF v < 0 THEN <<"-">> ELSE <<>>)
      \o Itoa(a \div 10)
      \o (IF a % 10 = 0 THEN <<>> ELSE <<".", DigitChar(a % 10)>>)

\* The text t encodes a number: the number in tenths that it is the decimal
\* text of.
Encoded(t) ==
  IF ParseFloat(t).ok
    THEN { v \in {ParseFloat(t).v} : FormatTenths(v) = t }
    ELSE {}

IsText(x) == x.k \in {"str", "Number"}

\* C18 as claimed: a slot holding the string encoding of a number decodes to
\* the value a slot holding the number gives (through toInt64 for slot 0,
\* through toFloat for the others), and a string that encodes no number gives
\* unknown, or an error for slot 0.
C18_StringsCoerced ==
  /\ ret.fn = "toFloat" /\ IsText(call.x) =>
       /\ \A v \in Encoded(call.x.t) : ret.v = toFloat(JNum(v))
       /\ ~ParseFloat(call.x.t).ok => IsNaN(ret.v)
  /\ ret.fn = "toInt64" /\ IsText(call.x) =>
       /\ \A v \in Encoded(call.x.t) :
            /\ ret.err = toInt64(call.arch, JNum(v)).err
            /\ ret.v = toInt64(call.arch, JNum(v)).v
       /\ ~ParseFloat(call.x.t).ok => ret.err

\* C18: a string slot gives unknown through toFloat and an error through
\* toInt64 whatever its text.  A json.Number holding the decimal text of a
\* number gives through toFloat the value the number gives; through toInt64
\* it gives the value the number gives when the number is an integer within
\* int64, and an error otherwise (the number itself is truncated).  A
\* json.Number that encodes no number gives unknown, or an error.
C18_NumbersCoerced ==
  /\ ret.fn = "toFloat" /\ call.x.k = "str" => IsNaN(ret.v)
  /\ ret.fn = "toInt64" /\ call.x.k = "str" => ret.err
  /\ ret.fn = "toFloat" /\ call.x.k = "Number" =>
       /\ \A v \in Encoded(call.x.t) : ret.v = F(v) /\ ret.v = toFloat(JNum(v))
       /\ ~ParseFloat(call.x.t).ok => IsNaN(ret.v)
  /\ ret.fn = "toInt64" /\ call.x.k = "Number" =>
       /\ \A v \in Encoded(call.x.t) :
            IF v % 10 = 0 /\ TruncInt(v) >= MinInt64 /\ TruncInt(v) <= MaxInt64
              THEN /\ ~ret.err
                   /\ ret.v = TruncInt(v)
                   /\ ret.v = toInt64(call.arch, JNum(v)).v
              ELSE ret.err
       /\ ~ParseFloat(call.x.t).ok => ret.err

\* toInt64 of json.Number("15") is 15, the value of the float64 15.
C18_Witness ==
  /\ ret.fn = "toInt64"
  /\ call.x = JNumber(<<"1", "5">>)
  /\ ~ret.err
  /\ ret.v = 15
  /\ Encoded(call.x.t) = {150}

\* A timestamp within the valid non-negative range: not below 0, and with
\* an integer part that is an int64.
InRestRange(v) == v >= 0 /\ TruncInt(v) <= MaxInt64

\* C19: in restObsToObservation every field is optional by itself: an absent
\* or null field gives 0 and not NaN, a present field gives its value, and no
\* input makes the conversion fail; the timestamp is the value given when it
\* is present and within the valid non-negative range, and 0 otherwise.
C19_RestFieldsOptional ==
  ret.fn = "restObsToObservation" =>
    /\ \A f \in RestFields \ {"Timestamp"} :
         ret.obs[f] = IF call.ro[f].nil THEN F(0) ELSE F(call.ro[f].v)
    /\ ret.obs.Timestamp =
         IF call.ro.Timestamp.nil THEN 0
         ELSE IF InRestRange(call.ro.Timestamp.v)
           THEN TruncInt(call.ro.Timestamp.v)
         ELSE 0

(***************************************************************************)
(* The Collector by itself: its methods called one at a time, in any       *)
(* order, by whatever holds it.                                            *)
(***************************************************************************)
\* Each counter is incremented MaxCalls times at most.
MaxCalls == 4

collectorKeep ==
  UNCHANGED <<cancelled, wsVars, fbVars, reply, replyLanded, wsHist, fbHist,
              callVars>>

CallIncrReconnects ==
  /\ reconnects < MaxCalls
  /\ IncrReconnects
  /\ UNCHANGED <<lastLanded, downAge>>
  /\ collectorKeep

CallIncrScrapeErrors ==
  /\ scrapeErrors < MaxCalls
  /\ IncrScrapeErrors
  /\ UNCHANGED <<lastLanded, downAge>>
  /\ collectorKeep

CallSetConnected(b) ==
  /\ SetConnected(b)
  /\ UNCHANGED lastLanded
  /\ collectorKeep

CallSetRainStart(epoch) ==
  /\ SetRainStart(epoch)
  /\ UNCHANGED <<lastLanded, downAge>>
  /\ collectorKeep

\* UpdateObservation from Lock to Unlock.
CallUpdateObservation(o) ==
  /\ Lock
  /\ obs' = o
  /\ hasObs' = TRUE
  /\ lastLanded' = <<o>>
  /\ UNCHANGED <<connected, reconnects, scrapeErrors, rainStart, mu, downAge>>
  /\ collectorKeep

InitCollector == InitCall /\ call = NoCall

NextCollector ==
  \/ CallIncrReconnects
  \/ CallIncrScrapeErrors
  \/ \E b \in BOOLEAN : CallSetConnected(b)
  \/ CallSetRainStart(F(9000))
  \/ \E arch \in Archs :
       \/ CallUpdateObservation(ParseObservation(arch, FrameA).obs)
       \/ CallUpdateObservation(restObsToObservation(arch, RestObsFull))
  \/ Collect
  \/ ReplySent

SpecCollector == InitCollector /\ [][NextCollector]_vars

\* C20: the reconnect counter and the scrape-error counter start at 0, never
\* decrease and are never reset; every change of either is an increase by
\* exactly 1, so that a value Collect has read is never above the counter.
C20_CountersStepUp ==
  /\ reconnects = 0 /\ scrapeErrors = 0
  /\ [][reconnects' # reconnects => reconnects' = reconnects + 1]_vars
  /\ [][scrapeErrors' # scrapeErrors => scrapeErrors' = scrapeErrors + 1]_vars
  /\ [](reply.op = "collect" =>
          reply.reconnects <= reconnects /\ reply.scrapeErrors <= scrapeErrors)

\* Both counters have been incremented, the observation replaced and the
\* connection state set in between, and Collect reports them.
C20_Witness ==
  /\ reply.op = "collect"
  /\ reply.reconnects = 2 /\ reply.scrapeErrors = 1
  /\ hasObs /\ connected /\ rainStart = F(9000)

(***************************************************************************)
(* Properties of the fallback poller and of the stream connector, second   *)
(* part.                                                                   *)
(***************************************************************************)
\* A step in which FetchObservation returns an error to RunFallback.
FetchFailed == fbPc = "fetch" /\ fbPc' = "select" /\ lastFetch' = "failed"

\* C21: each fallback fetch or decode failure in RunFallback increases the
\* scrape-error counter of the store by one.
C21_FetchFailureCounted ==
  [][FetchFailed => scrapeErrors' = scrapeErrors + 1]_vars

\* A step in which handlePrecip stores the epoch of an evt_precip message.
PrecipStored ==
  /\ wsPc = "read" /\ wsPc' = "read"
  /\ \E m \in Messages :
       /\ m.json /\ m.type = "evt_precip" /\ PrecipAccepted(m)
       /\ rainStart' = toFloat(m.evt[1])

\* C22 as claimed: RainStart is 0 until a precipitation event is consumed;
\* once set to a non-zero epoch it is never cleared back to zero and is only
\* replaced by the epoch of a newer precipitation event; disconnects,
\* reconnects, observation writes and fallback polls leave it unchanged.
C22_RainStartNeverCleared ==
  /\ rainStart = F(0)
  /\ [][rainStart' # rainStart => PrecipStored]_vars
  /\ [][rainStart # F(0) => rainStart' # F(0)]_vars

\* C22: RainStart is 0 until a precipitation event is consumed; it changes
\* only when handlePrecip consumes an evt_precip message whose slot 0 is a
\* number, and then to that number, be it 0; it is never NaN; disconnects,
\* reconnects, observation writes and fallback polls leave it unchanged.
C22_RainStartSetByPrecipOnly ==
  /\ rainStart = F(0)
  /\ [][rainStart' # rainStart => PrecipStored]_vars
  /\ [][connected' # connected \/ reconnects' # reconnects \/ obs' # obs
          \/ hasObs' # hasObs \/ fbPc' # fbPc \/ wsPc' # wsPc
          => rainStart' = rainStart]_vars
  /\ [](~IsNaN(rainStart))

\* The rain start outlives the disconnect, the reconnect count and a
\* fallback poll.
C22_Witness ==
  /\ rainStart = F(9000)
  /\ ~connected
  /\ reconnects >= 1
  /\ lastFetch = "ok"
  /\ hasObs

\* C23: with a device identifier that is no number every connection attempt
\* fails: one that has dialed fails at strconv.Atoi before anything is
\* written, so no subscribe frame is sent, connected is never set to true and
\* no observation of the stream is stored; Run goes on with one increment of
\* the reconnect counter and one backoff wait per attempt until it is
\* cancelled.
C23_InvalidDeviceIDNeverConnects ==
  /\ [](~AtoiOk(deviceID) =>
          /\ ~connected /\ ~hasObs /\ obs = ZeroObservation
          /\ wsPc \notin {"read", "update"}
          /\ sessionAge = -1
          /\ wsPc \in {"dial", "subscribe", "returned"} => reconnects = failedCycles
          /\ wsPc = "wait" => reconnects = failedCycles
          /\ wsPc = "wait" /\ streakFrom = "start" => backoff = WaitOf(reconnects))
  /\ [][~AtoiOk(deviceID) /\ wsPc = "subscribe" /\ wsPc' # wsPc
          => wsPc' = "returned" /\ UNCHANGED storeVars]_vars
  /\ [][~AtoiOk(deviceID) /\ wsPc = "returned" /\ wsPc' # wsPc
          => IF cancelled THEN wsPc' = "done" ELSE wsPc' = "incr"]_vars
  /\ [][~AtoiOk(deviceID) /\ wsPc = "incr" /\ wsPc' # wsPc
          => wsPc' = "wait" /\ reconnects' = reconnects + 1]_vars
  /\ [][~AtoiOk(deviceID) /\ wsPc = "wait" /\ wsPc' # wsPc
          => IF cancelled /\ wsPc' = "done" THEN TRUE
             ELSE wsPc' = "dial" /\ waitLeft = 0]_vars

\* The third attempt has dialed, after two attempts that failed and two
\* waits.
C23_Witness ==
  /\ ~AtoiOk(deviceID)
  /\ wsPc = "subscribe"
  /\ reconnects = 2
  /\ failedCycles = 2
  /\ backoff = 4
  /\ ~cancelled

\* The scheduler runs Run whenever it can take a step, and time passes.
SpecRunLive == SpecRun /\ WF_vars(Run) /\ WF_vars(Advance)

\* A step in which the dial or the subscription of an attempt fails.
AttemptFails == WsDialFails \/ WsInvalidDeviceID \/ WsWriteFails

\* C24: unless cancelled, Run never gives up: after every failed cycle it
\* starts another connection attempt, whatever the number of cycles before,
\* and if from some point on dial and subscribe do not fail any more the
\* connected flag becomes true again and again, until the session lasts (or,
\* here, the cycles that are modelled have been used).
C24_RunNeverGivesUp ==
  /\ wsPc = "returned" ~> (wsPc = "dial" \/ cancelled)
  /\ [][wsPc' = "done" => cancelled]_vars
  /\ <>[][~AttemptFails]_vars
       => []<>(connected \/ cancelled \/ reconnects >= budget)

\* Connected again after three failed cycles.
C24_Witness ==
  /\ wsPc = "read"
  /\ connected
  /\ reconnects = 3
  /\ failedCycles = 3
  /\ ~cancelled

\* The scheduler runs RunFallback whenever it can take a step, and time
\* passes.
SpecFallbackLive == SpecFallback /\ WF_vars(RunFallback) /\ WF_vars(Advance)

\* C25: if the stream stays disconnected for ever and the fallback source
\* answers successfully from some point on, RunFallback writes an observation
\* into the store (HasObservation becomes true) and writes one again after
\* each later fetch, tick after tick.
C25_FallbackKeepsWriting ==
  /\ ([]~connected /\ []~cancelled /\ <>[][~FetchFailed]_vars)
       => (<>hasObs /\ []<>(fbPc = "update") /\ []<>(fbPc = "select" /\ hasObs))
  /\ [][fbPc = "update" /\ fbPc' # fbPc =>
          fbPc' = "select" /\ obs' = fbArg /\ hasObs' /\ lastLanded' = <<fbArg>>]_vars

\* A later fetch is replacing the observation an earlier one has written.
C25_Witness ==
  /\ fbPc = "update"
  /\ hasObs
  /\ lastLanded # <<>>
  /\ ~connected
  /\ ~cancelled
  /\ disconnectThreshold > 0

\* ------------------------------------------------------------------
\* Derived values: DewPoint and FeelsLike.
\*
\* float64 arithmetic as the derived values use it: beside the numbers and
\* NaN there are the two infinities, which a division by zero produces.
\* Numbers are fixed-point integers; the scale of each is stated where it
\* is used.
PosInf == [nan |-> FALSE, v |-> 0, inf |-> 1]
NegInf == [nan |-> FALSE, v |-> 0, inf |-> -1]
IsInf(x) == "inf" \in DOMAIN x
Sgn(n) == IF n < 0 THEN -1 ELSE 1
InfOf(sign) == IF sign < 0 THEN NegInf ELSE PosInf

\* n / d rounded to the nearest integer.
RDiv(n, d) ==
  LET an == IF n < 0 THEN -n ELSE n
      ad == IF d < 0 THEN -d ELSE d
      q  == (an + ad \div 2) \div ad
  IN  IF Sgn(n) = Sgn(d) THEN q ELSE -q

FNeg(x) ==
  IF IsNaN(x) THEN NaN
  ELSE IF IsInf(x) THEN InfOf(-x.inf)
  ELSE F(-x.v)

FAdd(x, y) ==
  IF IsNaN(x) \/ IsNaN(y) THEN NaN
  ELSE IF IsInf(x) /\ IsInf(y) THEN (IF x.inf = y.inf THEN x ELSE NaN)
  ELSE IF IsInf(x) THEN x
  ELSE IF IsInf(y) THEN y
  ELSE F(x.v + y.v)

FSub(x, y) == FAdd(x, FNeg(y))

FMul(x, y) ==
  IF IsNaN(x) \/ IsNaN(y) THEN NaN
  ELSE IF IsInf(x) /\ IsInf(y) THEN InfOf(x.inf * y.inf)
  ELSE IF IsInf(x) THEN (IF y.v = 0 THEN NaN ELSE InfOf(x.inf * Sgn(y.v)))
  ELSE IF IsInf(y) THEN (IF x.v = 0 THEN NaN ELSE InfOf(y.inf * Sgn(x.v)))
  ELSE F(x.v * y.v)

\* x / y; a sum that cancels exactly is +0.
FQuo(x, y) ==
  IF IsNaN(x) \/ IsNaN(y) THEN NaN
  ELSE IF IsInf(x) /\ IsInf(y) THEN NaN
  ELSE IF IsInf(x) THEN InfOf(x.inf * Sgn(y.v))
  ELSE IF IsInf(y) THEN F(0)
  ELSE IF y.v = 0 THEN (IF x.v = 0 THEN NaN ELSE InfOf(Sgn(x.v)))
  ELSE F(RDiv(x.v, y.v))

\* math.Log and math.Exp on numbers counted in ten-thousandths.
Scale == 10000
Ln2 == 6931

RECURSIVE Reduce(_, _)
Reduce(x, k) ==
  IF x < Scale THEN Reduce(2 * x, k - 1)
  ELSE IF x >= 2 * Scale THEN Reduce(RDiv(x, 2), k + 1)
  ELSE <<x, k>>

\* ln x for x > 0: x = m * 2^k with 1 <= m < 2, and the series of
\* 2 * atanh((m - 1) / (m + 1)).
Log(x) ==
  LET r  == Reduce(x, 0)
      y  == RDiv((r[1] - Scale) * Scale, r[1] + Scale)
      y2 == RDiv(y * y, Scale)
      y3 == RDiv(y * y2, Scale)
      y5 == RDiv(y3 * y2, Scale)
      y7 == RDiv(y5 * y2, Scale)
      y9 == RDiv(y7 * y2, Scale)
  IN  r[2] * Ln2 + 2 * (y + RDiv(y3, 3) + RDiv(y5, 5) + RDiv(y7, 7) + RDiv(y9, 9))

\* e^z for 0 <= z < 1.
Exp(z) ==
  LET t1 == z
      t2 == RDiv(t1 * z, 2 * Scale)
      t3 == RDiv(t2 * z, 3 * Scale)
      t4 == RDiv(t3 * z, 4 * Scale)
      t5 == RDiv(t4 * z, 5 * Scale)
      t6 == RDiv(t5 * z, 6 * Scale)
      t7 == RDiv(t6 * z, 7 * Scale)
  IN  Scale + t1 + t2 + t3 + t4 + t5 + t6 + t7

\* math.Pow(x, 0.16) for 1 <= x < e^6.
Pow16(x) == Exp(RDiv(16 * Log(x), 100))

\* DewPoint: tempC and humidityPct in tenths, a = 17.27 and gamma in
\* ten-thousandths, b = 237.7 in tenths, the result in tenths.
DewPoint(tempC, humidityPct) ==
  IF IsNaN(tempC) \/ IsNaN(humidityPct) \/ humidityPct.v <= 0 THEN NaN
  ELSE LET gamma == FAdd(FQuo(F(172700 * tempC.v), F(2377 + tempC.v)),
                         F(Log(10 * humidityPct.v)))
       IN  FQuo(FMul(F(2377), gamma), FSub(F(172700), gamma))

\* windMps * 3.6, in hundredths of a km/h.
WindKmh(windMps) == FMul(windMps, F(36))

\* The wind chill of tempC (tenths) at windKmh (hundredths), in tenths:
\* 13.12 + 0.6215*tempC - 11.37*v16 + 0.3965*tempC*v16, summed in
\* hundred-thousandths.
WindChill(tempC, windKmh) ==
  LET v16 == Pow16(100 * windKmh.v)
  IN  F(RDiv(1312000 + 6215 * tempC.v - RDiv(1137 * v16, 10)
               + RDiv(RDiv(3965 * tempC.v, 100) * v16, 100), 10000))

\* The heat index of tempC at humidityPct (tenths), in tenths: the
\* regression in degrees Fahrenheit, summed in thousandths, and back.
HeatIndex(tempC, humidityPct) ==
  LET tf     == RDiv(18 * tempC.v, 10) + 320
      rh     == humidityPct.v
      tfrh   == RDiv(tf * rh, 100)
      tf2    == RDiv(tf * tf, 100)
      rh2    == RDiv(rh * rh, 100)
      tf2rh  == RDiv(tf2 * rh, 10)
      tfrh2  == RDiv(tfrh * rh, 10)
      tf2rh2 == RDiv(tf2 * rh2, 100)
      hi     == -42379
                + RDiv(20490 * tf, 100)
                + RDiv(101433 * rh, 100)
                - RDiv(22476 * tfrh, 100)
                - RDiv(6838 * tf2, 1000)
                - RDiv(54817 * rh2, 1000)
                + RDiv(1229 * tf2rh, 1000)
                + RDiv(853 * tfrh2, 1000)
                - RDiv(199 * tf2rh2, 1000)
  IN  F(RDiv(hi - 32000, 180))

\* A FeelsLike whose wind chill starts at 10 degrees inclusive.
FeelsLike_ColdAtTen(tempC, humidityPct, windMps) ==
  IF IsNaN(tempC) THEN NaN
  ELSE IF tempC.v <= 100 /\ ~IsNaN(windMps) /\ WindKmh(windMps).v > 480
    THEN WindChill(tempC, WindKmh(windMps))
  ELSE IF tempC.v >= 270 /\ ~IsNaN(humidityPct) /\ humidityPct.v >= 400
    THEN HeatIndex(tempC, humidityPct)
  ELSE tempC

\* FeelsLike; a comparison with NaN is false.
FeelsLike(tempC, humidityPct, windMps) ==
  IF IsNaN(tempC) THEN NaN
  ELSE IF tempC.v < 100 /\ ~IsNaN(windMps) /\ WindKmh(windMps).v > 480
    THEN WindChill(tempC, WindKmh(windMps))
  ELSE IF tempC.v >= 270 /\ ~IsNaN(humidityPct) /\ humidityPct.v >= 400
    THEN HeatIndex(tempC, humidityPct)
  ELSE tempC

\* Temperatures, humidities and winds a caller passes (tenths): unknown,
\* the borders of the tiers, the values of the tests, and -237.7 degrees.
Temperatures == {NaN} \cup {F(n) : n \in {-2377, -100, 50, 99, 100, 200, 225, 269, 270, 350}}
Humidities == {NaN} \cup {F(n) : n \in {-50, 0, 1, 399, 400, 500, 600, 650, 1000}}
Winds == {NaN} \cup {F(n) : n \in {0, 10, 13, 14, 20, 56}}

DerivedCalls ==
  { [fn |-> "DewPoint", tempC |-> t, humidityPct |-> h] :
      t \in Temperatures, h \in Humidities }
  \cup { [fn |-> "FeelsLike", tempC |-> t, humidityPct |-> h, windMps |-> w] :
           t \in Temperatures, h \in Humidities, w \in Winds }

CallDewPoint ==
  /\ call.fn = "DewPoint"
  /\ ret = NoRet
  /\ ret' = [fn |-> call.fn, v |-> DewPoint(call.tempC, call.humidityPct)]
  /\ callKeep

CallFeelsLike ==
  /\ call.fn = "FeelsLike"
  /\ ret = NoRet
  /\ ret' = [fn |-> call.fn,
             v |-> FeelsLike(call.tempC, call.humidityPct, call.windMps)]
  /\ callKeep

InitDerived == InitCall /\ call \in DerivedCalls

NextDerived ==
  \/ CallDewPoint
  \/ CallFeelsLike

SpecDerived == InitDerived /\ [][NextDerived]_vars

\* C26: DewPoint returns unknown exactly when tempC is unknown, humidityPct
\* is unknown or humidityPct <= 0; for every other input it returns a
\* number, and DewPoint(22.5, 65.0) is 15.6 within 0.1.
C26_DewPointUnknownExactly ==
  ret.fn = "DewPoint" =>
    /\ IsNaN(ret.v) <=> \/ IsNaN(call.tempC)
                        \/ IsNaN(call.humidityPct)
                        \/ call.humidityPct.v <= 0
    /\ ~IsNaN(ret.v) => ~IsInf(ret.v)
    /\ call.tempC = F(225) /\ call.humidityPct = F(650) =>
         ret.v.v \in 155..157

\* The tiers of FeelsLike as conditions on its arguments.
ColdAndWindy(c) ==
  /\ ~IsNaN(c.tempC) /\ c.tempC.v < 100
  /\ ~IsNaN(c.windMps) /\ 36 * c.windMps.v > 480

HotAndHumid(c) ==
  /\ ~IsNaN(c.tempC) /\ c.tempC.v >= 270
  /\ ~IsNaN(c.humidityPct) /\ c.humidityPct.v >= 400

\* C27: FeelsLike is unknown if tempC is unknown; else the wind chill if
\* tempC < 10 and windMps * 3.6 > 4.8; else the heat index if tempC >= 27
\* and humidityPct >= 40; else tempC itself.  No input is in both tiers, and
\* outside both (an unknown humidity or wind included) the result is tempC
\* exactly.  Wind chill lowers 5.0 degrees at 5.6 m/s to about 1.0, the heat
\* index raises 35.0 degrees at 60 %.
C27_FeelsLikeTiers ==
  ret.fn = "FeelsLike" =>
    /\ ~(ColdAndWindy(call) /\ HotAndHumid(call))
    /\ IsNaN(call.tempC) => IsNaN(ret.v)
    /\ ColdAndWindy(call) =>
         ret.v = WindChill(call.tempC, WindKmh(call.windMps))
    /\ HotAndHumid(call) => ret.v = HeatIndex(call.tempC, call.humidityPct)
    /\ ~ColdAndWindy(call) /\ ~HotAndHumid(call) => ret.v = call.tempC
    /\ call.tempC = F(50) /\ call.windMps = F(56) =>
         ret.v.v \in 9..12 /\ ret.v.v < call.tempC.v
    /\ call.tempC = F(350) /\ call.humidityPct = F(600) /\ call.windMps = F(10) =>
         ret.v.v > 350
    /\ call.tempC = F(200) /\ call.humidityPct = F(500) /\ call.windMps = F(20) =>
         ret.v = F(200)

\* FeelsLike has returned tempC itself at exactly 10 degrees in a wind
\* above 4.8 km/h, the humidity unknown.
C27_Witness ==
  /\ ret.fn = "FeelsLike"
  /\ call.tempC = F(100)
  /\ call.windMps = F(56)
  /\ IsNaN(call.humidityPct)
  /\ ret.v = F(100)

\* ------------------------------------------------------------------
\* What Collect sends on its channel.
\*
\* The observation gauges in the order Collect emits them; each is named
\* after the field it exports.
ObsGauges ==
  <<"WindLull", "WindAvg", "WindGust", "WindDirection", "StationPressure",
    "AirTemperature", "RelativeHumidity", "Illuminance", "UV",
    "SolarRadiation", "RainAccumulated", "PrecipitationType",
    "LightningStrikeAvgDist", "LightningStrikeCount", "Battery">>

Metric(desc, val) == [desc |-> desc, val |-> val]

\* An emitGauge that sends NaN as well.
emitGauge_Always(desc, val) == <<Metric(desc, val)>>

emitGauge(desc, val) == IF IsNaN(val) THEN <<>> ELSE <<Metric(desc, val)>>

RECURSIVE EmitObsGauges(_, _)
EmitObsGauges(o, i) ==
  IF i > Len(ObsGauges) THEN <<>>
  ELSE emitGauge(ObsGauges[i], o[ObsGauges[i]]) \o EmitObsGauges(o, i + 1)

\* The metrics of one Collect from the values it has copied under the read
\* lock, in order; a count and a timestamp become float64 (tenths).
Metrics(o, has, conn, recon, errs, rain) ==
  <<Metric("Up", IF conn THEN F(10) ELSE F(0)),
    Metric("Reconnects", F(10 * recon)),
    Metric("ScrapeErrors", F(10 * errs))>>
  \o (IF has
        THEN <<Metric("LastObservation", F(10 * o.Timestamp))>>
             \o EmitObsGauges(o, 1)
             \o emitGauge("DewPoint", DewPoint(o.AirTemperature, o.RelativeHumidity))
             \o emitGauge("FeelsLike",
                          FeelsLike(o.AirTemperature, o.RelativeHumidity, o.WindAvg))
             \o (IF rain.v > 0 THEN emitGauge("RainStartEpoch", rain) ELSE <<>>)
        ELSE <<>>)

\* Collect from RLock to its last send, no other task running.
CallCollect ==
  /\ ret = NoRet
  /\ RLock
  /\ ret' = [fn |-> "Collect",
             metrics |-> Metrics(obs, hasObs, connected, reconnects,
                                 scrapeErrors, rainStart)]
  /\ UNCHANGED <<call, engineVars>>

\* The calls made on the Collector before the scrape.
BeforeCollect ==
  /\ ret = NoRet
  /\ \/ CallIncrReconnects
     \/ CallIncrScrapeErrors
     \/ \E b \in BOOLEAN : CallSetConnected(b)
     \/ \E epoch \in {F(-10), F(0), F(9000)} : CallSetRainStart(epoch)
     \/ \E arch \in Archs :
          \/ CallUpdateObservation(ParseObservation(arch, FrameA).obs)
          \/ CallUpdateObservation(ParseObservation(arch, FrameB).obs)
          \/ CallUpdateObservation(restObsToObservation(arch, RestObsSparse))

NextCollect ==
  \/ BeforeCollect
  \/ CallCollect

SpecCollect == InitCollector /\ [][NextCollect]_vars

Emitted(desc) == \E i \in 1..Len(ret.metrics) : ret.metrics[i].desc = desc

EmittedAs(desc, val) ==
  /\ \E i \in 1..Len(ret.metrics) : ret.metrics[i] = Metric(desc, val)
  /\ Cardinality({i \in 1..Len(ret.metrics) : ret.metrics[i].desc = desc}) = 1

\* What Collect emits whether or not an observation is stored, and what it
\* emits of the values beside the observation fields.
CollectFrame ==
  /\ EmittedAs("Up", IF connected THEN F(10) ELSE F(0))
  /\ EmittedAs("Reconnects", F(10 * reconnects))
  /\ EmittedAs("ScrapeErrors", F(10 * scrapeErrors))
  /\ ~hasObs => Len(ret.metrics) = 3
  /\ hasObs =>
       /\ EmittedAs("LastObservation", F(10 * obs.Timestamp))
       /\ LET dp == DewPoint(obs.AirTemperature, obs.RelativeHumidity)
              fl == FeelsLike(obs.AirTemperature, obs.RelativeHumidity, obs.WindAvg)
          IN  /\ IF IsNaN(dp) THEN ~Emitted("DewPoint") ELSE EmittedAs("DewPoint", dp)
              /\ IF IsNaN(fl) THEN ~Emitted("FeelsLike") ELSE EmittedAs("FeelsLike", fl)
       /\ IF rainStart.v > 0
            THEN EmittedAs("RainStartEpoch", rainStart)
            ELSE ~Emitted("RainStartEpoch")
  /\ \A i \in 1..Len(ret.metrics) : ~IsNaN(ret.metrics[i].val)

C29_NoFetchOnFirstTick ==
  /\ [][TickTaken /\ ~connected /\ disconnectedSince = -1 =>
          disconnectedSince' = 0 /\ ~FetchIssued /\ fbPc' = "select"]_vars
  /\ [][TickTaken /\ ~connected /\ disconnectedSince # -1
          /\ disconnectedSince < disconnectThreshold =>
          /\ ~FetchIssued
          /\ fbPc' = "select"
          /\ disconnectedSince' = disconnectedSince]_vars
  /\ [][FetchIssued =>
          TickTaken /\ ~connected /\ disconnectedSince # -1 /\ outage # -1]_vars

\* The first fetch is issued by the second tick of the first outage, the
\* threshold being 0.
C29_Witness ==
  /\ fbPc = "fetch"
  /\ disconnectThreshold = 0
  /\ outages = 1
  /\ lastFetch = "none"
  /\ disconnectedSince = 0
  /\ tickLeft = pollInterval
  /\ ~connected

\* C30: the connected flag becomes true only in the step that follows the
\* successful dial and the successful subscribe write of the current
\* attempt; while Run is dialing, subscribing, has returned from an attempt
\* that did not subscribe, or is on its way to or in the backoff wait, the
\* flag is false.
C30_ConnectedOnlyWhenSubscribed ==
  /\ [](wsPc \in {"dial", "subscribe", "incr", "wait"} => ~connected)
  /\ [](wsPc = "returned" /\ sessionAge = -1 => ~connected)
  /\ [][~connected /\ connected' =>
          wsPc = "subscribe" /\ wsPc' = "read" /\ AtoiOk(deviceID)]_vars

\* After a session that stored an observation and ended, a later attempt
\* has failed before the subscribe was done.
C30_Witness ==
  /\ wsPc = "returned"
  /\ sessionAge = -1
  /\ reconnects >= 1
  /\ hasObs
  /\ ~connected
  /\ ~cancelled

\* C31: RunFallback calls UpdateObservation only while the connected flag is
\* false, whatever Run does while the fetch is in flight, so that a fallback
\* write never replaces the observation of a live session.
C31_FallbackWritesOnlyWhileDown ==
  /\ [][fbPc = "fetch" /\ fbPc' = "update" => ~connected]_vars
  /\ [][fbPc = "update" /\ fbPc' # fbPc => ~connected]_vars

\* ------------------------------------------------------------------
\* readLoop on one connection after another, no other task running.
\*
\* call is the Client (its parseErrors counter), ret is what the last
\* iteration of readLoop did: the kind of message it read and the level of
\* the line it logged ("none" when it logged nothing).
MaxSessions == 2
MaxParseErrors == 200
LogEvery == 100

TheClient(n) == [fn |-> "readLoop", parseErrors |-> n]
Iteration(kind, level) == [fn |-> "readLoop", kind |-> kind, log |-> level]

\* The messages a connection delivers: those of the engine, and lightning
\* and precipitation events of every shape.
ReadLoopMessages ==
  Messages
  \cup { Msg("evt_strike", TRUE, <<>>, e) :
           e \in { <<>>, <<JNum(10000), JNum(50)>>,
                   <<JNum(10000), JNull, JNum(30)>>,
                   <<JStr(<<"x">>), JStr(<<"1">>), JBool, JNum(9000)>> } }
  \cup { Msg("evt_strike", FALSE, <<>>, <<>>),
         Msg("evt_precip", TRUE, <<>>, <<JStr(<<"9">>)>>),
         Msg("evt_precip", TRUE, <<>>, <<JBool, JNum(9000)>>),
         Msg("evt_precip", TRUE, <<>>, <<JNum(-10), JNull>>),
         Msg("connection_opened", TRUE, <<>>, <<>>) }

rlKeep ==
  UNCHANGED <<cancelled, budget, deviceID, backoff, sinceStart, waitLeft, wsArg,
              fbVars, reply, replyLanded, wsHist, fbHist>>

\* connectAndRead after the subscribe write: SetConnected(true),
\* parseErrors.Store(0), readLoop starts.
RlConnect ==
  /\ wsPc = "subscribe"
  /\ SetConnected(TRUE)
  /\ call' = TheClient(0)
  /\ wsPc' = "read"
  /\ UNCHANGED <<ret, lastLanded>>
  /\ rlKeep

\* A rate limit that logs every failure.
WarnsAt_Every(count) == count >= 1

\* The condition of the warning for the count-th unparseable message.
WarnsAt(count) == count = 1 \/ count % LogEvery = 0

\* An unparseable envelope that ends readLoop.
RlUnparseable_Closes ==
  /\ wsPc = "read"
  /\ call.parseErrors < MaxParseErrors
  /\ call' = TheClient(call.parseErrors + 1)
  /\ ret' = Iteration("unparseable",
                      IF WarnsAt(call.parseErrors + 1) THEN "warn" ELSE "none")
  /\ wsPc' = "returned"
  /\ UNCHANGED <<storeVars, lastLanded, downAge>>
  /\ rlKeep

\* The envelope does not unmarshal: count, warn at the 1st and every
\* 100th, continue.
RlUnparseable ==
  /\ wsPc = "read"
  /\ call.parseErrors < MaxParseErrors
  /\ call' = TheClient(call.parseErrors + 1)
  /\ ret' = Iteration("unparseable",
                      IF WarnsAt(call.parseErrors + 1) THEN "warn" ELSE "none")
  /\ UNCHANGED <<storeVars, wsPc, lastLanded, downAge>>
  /\ rlKeep

\* case "obs_st": handleObsST from its first line to its return.
RlObsST(m) ==
  /\ wsPc = "read"
  /\ m.json /\ m.type = "obs_st"
  /\ Lock
  /\ \E arch \in Archs :
       IF ObsSTRejected(arch, m)
         THEN /\ UNCHANGED <<obs, hasObs, lastLanded>>
              /\ ret' = Iteration("obs_st",
                                  IF m.typed /\ Len(m.obs) = 0 THEN "warn" ELSE "error")
         ELSE /\ obs' = ParseObservation(arch, m.obs[1]).obs
              /\ hasObs' = TRUE
              /\ lastLanded' = <<ParseObservation(arch, m.obs[1]).obs>>
              /\ ret' = Iteration("obs_st", "info")
  /\ UNCHANGED <<call, wsPc, connected, reconnects, scrapeErrors, rainStart, mu,
                 downAge>>
  /\ rlKeep

\* A handleStrike that records the strike as a rain start.
RlStrike_SetsRainStart(m) ==
  /\ wsPc = "read"
  /\ m.json /\ m.type = "evt_strike"
  /\ IF m.typed /\ Len(m.evt) >= 3
       THEN SetRainStart(toFloat(m.evt[1]))
       ELSE UNCHANGED storeVars
  /\ ret' = Iteration("evt_strike",
                      IF ~m.typed THEN "error"
                      ELSE IF Len(m.evt) >= 3 /\ ~IsNaN(toFloat(m.evt[2]))
                        THEN "info" ELSE "none")
  /\ UNCHANGED <<call, wsPc, lastLanded, downAge>>
  /\ rlKeep

\* case "evt_strike": handleStrike logs the strike and stores nothing.
RlStrike(m) ==
  /\ wsPc = "read"
  /\ m.json /\ m.type = "evt_strike"
  /\ ret' = Iteration("evt_strike",
                      IF ~m.typed THEN "error"
                      ELSE IF Len(m.evt) >= 3 /\ ~IsNaN(toFloat(m.evt[2]))
                        THEN "info" ELSE "none")
  /\ UNCHANGED <<call, storeVars, wsPc, lastLanded, downAge>>
  /\ rlKeep

\* case "evt_precip": handlePrecip.
RlPrecip(m) ==
  /\ wsPc = "read"
  /\ m.json /\ m.type = "evt_precip"
  /\ IF PrecipAccepted(m)
       THEN SetRainStart(toFloat(m.evt[1]))
       ELSE UNCHANGED storeVars
  /\ ret' = Iteration("evt_precip",
                      IF ~m.typed THEN "error"
                      ELSE IF PrecipAccepted(m) THEN "info" ELSE "none")
  /\ UNCHANGED <<call, wsPc, lastLanded, downAge>>
  /\ rlKeep

\* case "ack", "connection_opened", and default: a log line.
RlControl(m) ==
  /\ wsPc = "read"
  /\ m.json /\ m.type \notin {"obs_st", "evt_strike", "evt_precip"}
  /\ ret' = Iteration(IF m.type \in {"ack", "connection_opened"}
                        THEN "control" ELSE "unknown",
                      IF m.type \in {"ack", "connection_opened"}
                        THEN "info" ELSE "warn")
  /\ UNCHANGED <<call, storeVars, wsPc, lastLanded, downAge>>
  /\ rlKeep

\* conn.Read returns an error: readLoop and connectAndRead return.
RlReadFails ==
  /\ wsPc = "read"
  /\ wsPc' = "returned"
  /\ UNCHANGED <<callVars, storeVars, lastLanded, downAge>>
  /\ rlKeep

\* Run after the return: SetConnected(false), IncrReconnects, the wait, the
\* next dial and subscribe write.
RlReconnect ==
  /\ wsPc = "returned"
  /\ reconnects < MaxSessions
  /\ Lock
  /\ connected' = FALSE
  /\ reconnects' = reconnects + 1
  /\ downAge' = IF connected THEN 0 ELSE downAge
  /\ wsPc' = "subscribe"
  /\ UNCHANGED <<obs, hasObs, scrapeErrors, rainStart, mu, callVars, lastLanded>>
  /\ rlKeep

InitReadLoop ==
  /\ obs = ZeroObservation /\ hasObs = FALSE /\ connected = FALSE
  /\ reconnects = 0 /\ scrapeErrors = 0 /\ rainStart = F(0) /\ mu = "free"
  /\ cancelled = FALSE /\ budget = 0 /\ deviceID = <<"1", "2">>
  /\ wsPc = "subscribe"
  /\ backoff = InitialBackoff /\ sinceStart = 0 /\ waitLeft = 0
  /\ wsArg = ZeroObservation
  /\ disconnectThreshold = 0 /\ fbPc = "done" /\ disconnectedSince = -1
  /\ tickLeft = pollInterval /\ tickPending = FALSE /\ fbArg = ZeroObservation
  /\ reply = NoReply /\ lastLanded = <<>> /\ replyLanded = <<>>
  /\ downAge = 0 /\ sessionAge = -1 /\ failedCycles = 0
  /\ streak = 0 /\ streakFrom = "start"
  /\ outage = -1 /\ outages = 0 /\ everFetched = FALSE /\ lastFetch = "none"
  /\ call = TheClient(0)
  /\ ret = NoRet

NextReadLoop ==
  \/ RlConnect
  \/ RlUnparseable
  \/ \E m \in ReadLoopMessages :
       \/ RlObsST(m)
       \/ RlStrike(m)
       \/ RlPrecip(m)
       \/ RlControl(m)
  \/ RlReadFails
  \/ RlReconnect

SpecReadLoop == InitReadLoop /\ [][NextReadLoop]_vars

\* C32: when the envelope of a message does not parse, readLoop adds exactly
\* 1 to the parse-error counter, changes no field of the store, stays in its
\* loop on the same connection, and dispatches the valid messages that
\* follow.
C32_UnparseableIsCountedAndDropped ==
  /\ [][wsPc = "read" /\ ret'.fn = "readLoop" /\ ret'.kind = "unparseable"
          /\ callVars' # callVars =>
          /\ call'.parseErrors = call.parseErrors + 1
          /\ UNCHANGED storeVars
          /\ wsPc' = "read"]_vars
  /\ [][call' # call =>
          \/ ret'.kind = "unparseable" /\ call'.parseErrors = call.parseErrors + 1
          \/ wsPc = "subscribe" /\ call'.parseErrors = 0]_vars
  /\ [](wsPc = "read" /\ call.parseErrors > 0 =>
          /\ ENABLED RlObsST(Msg("obs_st", TRUE, <<FrameA>>, <<>>))
          /\ ENABLED RlPrecip(Msg("evt_precip", TRUE, <<>>, <<JNum(9000)>>)))

\* After two unparseable messages on the connection an observation has been
\* stored from a valid obs_st message.
C32_Witness ==
  /\ call.parseErrors = 2
  /\ ret = Iteration("obs_st", "info")
  /\ hasObs
  /\ wsPc = "read"
  /\ reconnects = 0

\* C33: an obs_st message whose frame cannot be decoded is handled like an
\* unparseable envelope: it is counted in the parse-error counter, its log
\* line is rate-limited, the message is dropped and the loop continues.
C33_FrameFailureCounted ==
  [][wsPc = "read" /\ ret'.fn = "readLoop" /\ ret'.kind = "obs_st"
       /\ ret'.log # "info" /\ ret' # ret =>
       /\ call'.parseErrors = call.parseErrors + 1
       /\ ret'.log # "none" <=> WarnsAt(call'.parseErrors)
       /\ UNCHANGED storeVars
       /\ wsPc' = "read"]_vars

\* C34: the k-th envelope parse failure of a connection, k being the
\* parse-error counter after the increment, logs a warning if and only if
\* k = 1 or k is a multiple of 100; every other failure logs nothing.
C34_WarnsFirstAndEveryHundredth ==
  [][wsPc = "read" /\ ret'.fn = "readLoop" /\ ret'.kind = "unparseable"
       /\ callVars' # callVars =>
       LET k == call'.parseErrors
       IN  /\ k = call.parseErrors + 1
           /\ ret'.log = (IF k = 1 \/ k % 100 = 0 THEN "warn" ELSE "none")]_vars

\* The 200th failure of the second connection has logged its warning.
C34_Witness ==
  /\ call.parseErrors = 200
  /\ ret = Iteration("unparseable", "warn")
  /\ reconnects = 1
  /\ wsPc = "read"

\* C35: a control message (ack, connection_opened), a message of an
\* unrecognized type and a lightning event, whatever its evt array, change
\* no field of the store, and readLoop continues.
C35_OtherMessagesLeaveStore ==
  [][wsPc = "read" /\ wsPc' = "read" /\ ret'.fn = "readLoop"
       /\ ret'.kind \in {"control", "unknown", "evt_strike"} =>
       UNCHANGED <<obs, hasObs, connected, reconnects, scrapeErrors, rainStart>>]_vars

\* A lightning event has been logged on a connection whose store holds an
\* observation and a rain start.
C35_Witness ==
  /\ ret = Iteration("evt_strike", "info")
  /\ wsPc = "read"
  /\ hasObs
  /\ connected
  /\ rainStart = F(9000)

\* C36: a precipitation event sets RainStart to its first evt element
\* exactly when it decodes, its evt array is not empty and that element is a
\* number; otherwise RainStart stays; and it never changes the observation,
\* the has-observation flag, the connected flag or a counter.
C36_PrecipSetsRainStart ==
  [][\A m \in ReadLoopMessages :
       RlPrecip(m) =>
         /\ IF m.typed /\ Len(m.evt) >= 1 /\ m.evt[1].k = "num"
              THEN rainStart' = F(m.evt[1].v)
              ELSE rainStart' = rainStart
         /\ UNCHANGED <<obs, hasObs, connected, reconnects, scrapeErrors>>
         /\ wsPc' = "read"]_vars

\* A precipitation event with a null epoch has been dropped after one with
\* a number was stored.
C36_Witness ==
  /\ ret = Iteration("evt_precip", "none")
  /\ rainStart = F(9000)
  /\ wsPc = "read"

\* A response FetchObservation has to answer with an error: a status other
\* than 200, a body that does not decode, an empty obs array.
BadResponse(resp) ==
  resp.transport /\ (resp.status # 200 \/ ~resp.decodes \/ Len(resp.obs) = 0)

\* C37: FetchObservation returns an error and no Observation for a status
\* other than 200, an undecodable body or an empty obs array, so that no
\* update follows such a response; and a fetch that fails inside RunFallback
\* leaves the observation, the has-observation flag, the connected flag, the
\* reconnect counter and RainStart as they are.
C37_FailedFetchLeavesStore ==
  /\ [](fbPc = "fetch" /\ ~cancelled /\ mu = "free" /\ reply = NoReply =>
          \A resp \in Responses : BadResponse(resp) =>
            /\ ENABLED FbFetchFails(resp)
            /\ ~ENABLED FbFetchOk(resp))
  /\ [][fbPc = "fetch" /\ fbPc' = "update" =>
          \E resp \in Responses, arch \in Archs :
            /\ ~BadResponse(resp) /\ resp.transport
            /\ fbArg' = restObsToObservation(arch, resp.obs[1])]_vars
  /\ [][fbPc = "fetch" /\ fbPc' # "fetch" /\ lastFetch' = "failed" =>
          /\ UNCHANGED <<obs, hasObs, connected, reconnects, rainStart>>
          /\ fbPc' = "select"
          /\ fbArg' = fbArg]_vars

\* A fetch has failed after an earlier one stored its observation, a rain
\* start and a reconnect being recorded.
C37_Witness ==
  /\ lastFetch = "failed"
  /\ fbPc = "select"
  /\ hasObs
  /\ obs = restObsToObservation("amd64", RestObsFull)
  /\ rainStart = F(9000)
  /\ reconnects >= 1

\* C38: toInt64 rejects every float64 below -2^63 or above 2^63 - 1 (2^63
\* included) and NaN, and returns every integral value in the int64 range
\* as that integer.
C38_OutOfRangeRejected ==
  ret.fn = "toInt64" =>
    /\ call.x.k = "nan" => ret.err
    /\ call.x.k = "num" /\ (call.x.v < 10 * MinInt64 \/ call.x.v > 10 * MaxInt64) =>
         ret.err
    /\ call.x.k = "num" /\ call.x.v >= 10 * MinInt64 /\ call.x.v <= 10 * MaxInt64
         /\ call.x.v % 10 = 0 =>
         ~ret.err /\ 10 * ret.v = call.x.v

\* C39: Run resets the backoff to its starting value only after a cycle in
\* which the stream was connected for more than 2 minutes; a cycle whose
\* dial or subscribe failed, however long it took, leaves the backoff.
C39_ResetOnlyAfterLongSession ==
  [][wsPc = "incr" /\ wsPc' = "wait" =>
       IF sessionAge > ResetAfter
         THEN backoff' = InitialBackoff
         ELSE backoff' = backoff]_vars

\* C40: the connected flag, the reconnect counter and RainStart are changed
\* by steps of Run only and never by a step of RunFallback; the observation
\* and the has-observation flag are changed by steps of Run and of
\* RunFallback only; the readers and the passage of time change no field.
C40_FixedWriters ==
  /\ [][connected' # connected \/ reconnects' # reconnects
          \/ rainStart' # rainStart => Run /\ ~RunFallback]_vars
  /\ [][obs' # obs \/ hasObs' # hasObs => Run \/ RunFallback]_vars
  /\ [][fbPc' # fbPc \/ fbArg' # fbArg \/ lastFetch' # lastFetch =>
          UNCHANGED <<connected, reconnects, rainStart, scrapeErrors>>]_vars

\* Both tasks have written: Run has counted a reconnect, recorded a rain
\* start and cleared the connected flag, and the store holds an observation
\* written by RunFallback while Run waits out its backoff.
C40_Witness ==
  /\ wsPc = "wait"
  /\ fbPc = "select"
  /\ lastFetch = "ok"
  /\ ~connected
  /\ reconnects >= 1
  /\ rainStart = F(9000)
  /\ hasObs
  /\ obs = restObsToObservation("amd64", RestObsFull)
====
